---- MODULE Spec2Model ----
(***************************************************************************)
(* MoneyFlow backend: joint-account membership, invitations and the        *)
(* membership/role gate in front of the financial records.                 *)
(*                                                                         *)
(* The repository ships two server variants over a MongoDB store:          *)
(*   "ts"     - the TypeScript server (routes/jointAccounts.ts, ...):       *)
(*              roles ADMIN/MEMBER, one jointAccountMembers row per        *)
(*              membership, invitations in jointAccountInvites;            *)
(*   "legacy" - the JavaScript server (routes/jointAccounts.js, ...):      *)
(*              roles owner/admin/editor/viewer, memberships embedded in   *)
(*              jointAccounts.members[], invitations as notifications.     *)
(* A deployment runs one of them; Init chooses which.                      *)
(*                                                                         *)
(* Every request handler is an async function: it can be suspended at      *)
(* each awaited store operation, so a handler is a sequence of steps, one  *)
(* per store operation whose result it uses, run by a process of Procs.    *)
(***************************************************************************)
EXTENDS Integers, Sequences, FiniteSets, TLC

\* ------------------------------------------------------------------------
\* Universe and bounds
\* ------------------------------------------------------------------------

\* The `user` collection. It is not changed by any modelled handler.
Users == {"alice", "bob"}

\* Request handlers that can run at the same time.
NumProcs == 2

Procs == 1..NumProcs

\* Joint accounts ever created (account ids are never reused).
MaxAccounts == 1

\* Invitation documents held in the store at one time.
MaxInvites == 2

\* The clock runs from 0 to MaxNow; one tick is one week.
MaxNow == 2

\* jointAccounts.ts:292, 7 * 24 * 60 * 60 * 1000 ms, in ticks of one week.
InviteTtl == 1

\* Split requests ever created.
MaxSplits == 1

\* Documents held at one time in transactions, goals and subscriptions.
MaxTx == 1
MaxGoals == 1
MaxSubs == 1

\* Amounts run from 0 to MaxAmount.
MaxAmount == 1

\* The targetAmount of a goal whose progress is followed in steps of 2%, and
\* the amounts that are given to such a goal.
GoalTarget == 50

\* the account names a request can give (a new account is named 1), and the
\* invite codes an account can be given (a new account has code 1)
MaxNames == 2
MaxCodes == 2

AccountIds == 1..MaxAccounts
TxIds == 1..MaxTx
GoalIds == 1..MaxGoals
SubIds == 1..MaxSubs
Amounts == 0..MaxAmount
\* req.body.name of an update: 0 when the body has no name
Names == 0..MaxNames
InviteIds == 1..(MaxInvites + NumProcs)
MemberIds == 1..(MaxAccounts * Cardinality(Users) + NumProcs)

VARIABLES
    variant,              \* "ts" or "legacy": the server that is deployed
    now,                  \* the clock (new Date())
    jointAccounts,        \* collection jointAccounts
    jointAccountMembers,  \* collection jointAccountMembers (ts)
    jointAccountInvites,  \* collection jointAccountInvites (ts)
    notifications,        \* collection notifications, type joint_account_invite (legacy)
    transactions,         \* collection transactions
    goals,                \* collection goals
    subscriptions,        \* collection subscriptions (ts)
    rooms,                \* <<u, a>>: the socket of user u is in the room of account a
    splitRequests,        \* collection splitRequests (legacy)
    pc,                   \* pc[p]: the step process p is suspended before
    req,                  \* req[p]: the request p serves and its local variables
    lastResp              \* the response sent by the last step, if it sent one

memberVars == <<jointAccounts, jointAccountMembers, jointAccountInvites, notifications>>
recordVars == <<transactions, goals, subscriptions>>
storeVars == <<jointAccounts, jointAccountMembers, jointAccountInvites, notifications,
               transactions, goals, subscriptions>>
vars == <<variant, now, jointAccounts, jointAccountMembers, jointAccountInvites,
          notifications, transactions, goals, subscriptions, rooms, splitRequests, pc, req,
          lastResp>>

\* ------------------------------------------------------------------------
\* Emails. A stored user email is lowercase (authRoutes.ts:190); a request
\* may spell it in another letter case.
\* ------------------------------------------------------------------------

NoEmail == [who |-> "none", upper |-> FALSE]

Emails == [who : Users, upper : BOOLEAN]

\* String.prototype.toLowerCase
ToLowerCase(e) == [e EXCEPT !.upper = FALSE]

\* user.email as stored at sign-up
UserEmail(u) == [who |-> u, upper |-> FALSE]

\* db.collection('user').findOne({ email }): an exact, case-sensitive match
FindUsersByEmail(e) == {u \in Users : UserEmail(u) = e}

\* ------------------------------------------------------------------------
\* Requests and responses
\* ------------------------------------------------------------------------

NoReq == [op |-> "none", userId |-> "none", acct |-> 0, target |-> 0, member |-> "none",
          accept |-> FALSE, email |-> NoEmail, role |-> "none", amount |-> 0, name |-> 0,
          targetAmount |-> 0, wrote |-> FALSE, goal |-> [id |-> 0]]

\* What a handler sends besides its response: the users whose sockets get an
\* event of the account room, the users a push is sent to, the users a
\* persisted chat announcement is shown to, the goal milestones (in
\* percent) that are announced, and the transaction ids that the
\* TRANSACTION_DELETED events of a bulk delete name.
NoFan == [live |-> {}, push |-> {}, chat |-> {}, milestone |-> {}, events |-> {}]

NoResp == [proc |-> 0, req |-> NoReq, code |-> 0, error |-> "", data |-> {}, fan |-> NoFan]

\* res.status(code).json(...) with the documents of the body and the events
\* sent before it: the handler ends
ReplyWith(p, r, code, error, data, fan) ==
    /\ pc' = [pc EXCEPT ![p] = "idle"]
    /\ req' = [req EXCEPT ![p] = NoReq]
    /\ lastResp' = [proc |-> p, req |-> r, code |-> code, error |-> error,
                    data |-> data, fan |-> fan]

\* res.status(code).json(...): the handler ends
Reply(p, r, code, error) == ReplyWith(p, r, code, error, {}, NoFan)

\* Process p can take a request. The processes are interchangeable: a request
\* is taken by the lowest idle one.
Free(p) == pc[p] = "idle" /\ \A q \in Procs : q < p => pc[q] # "idle"

\* the requests being served
Running(op) == {q \in Procs : req[q].op = op}

\* An authenticated request of user u
Op(op, u) == [NoReq EXCEPT !.op = op, !.userId = u]

\* the handler is suspended at its next await
Goto(p, label, r) ==
    /\ pc' = [pc EXCEPT ![p] = label]
    /\ req' = [req EXCEPT ![p] = r]
    /\ lastResp' = NoResp

\* the handler has sent a write to the store and is suspended at its next await
GotoAfterWrite(p, label, r) == Goto(p, label, [r EXCEPT !.wrote = TRUE])

\* crypto.randomUUID(): an id held by no document and no running handler
Min(S) == CHOOSE x \in S : \A y \in S : x <= y

UsedAccountIds ==
    {a.id : a \in jointAccounts}
    \cup {m.jointAccountId : m \in jointAccountMembers}
    \cup {i.jointAccountId : i \in jointAccountInvites}
    \cup {n.jointAccountId : n \in notifications}
    \cup {t.jointAccountId : t \in transactions}
    \cup {g.jointAccountId : g \in goals}
    \cup {s.jointAccountId : s \in subscriptions}
    \cup {req[q].acct : q \in Procs}

UsedMemberIds ==
    {m.id : m \in jointAccountMembers}
    \cup {req[q].target : q \in Running("removeMember")}

UsedInviteIds ==
    {i.id : i \in jointAccountInvites}
    \cup {n.id : n \in notifications}
    \cup {req[q].target : q \in Running("respond") \cup Running("cancelInvite")
                                  \cup Running("action")}

\* ------------------------------------------------------------------------
\* ts: middleware/jointAccount.ts
\* ------------------------------------------------------------------------

MsgNotMember == "You are not a member of this joint account"
MsgOnlyAdmins == "Only admins can perform this action"

\* jointAccountMembers.findOne({ jointAccountId, userId })
MembershipsOf(a, u) ==
    {m \in jointAccountMembers : m.jointAccountId = a /\ m.userId = u}

\* requireJointAccountAdmin with the role check left out
RequireMembershipOnly(a, u) ==
    IF MembershipsOf(a, u) = {} THEN MsgNotMember ELSE "ok"

\* requireJointAccountAdmin: "ok", or the 403 message
RequireJointAccountAdmin(a, u) ==
    IF MembershipsOf(a, u) = {} THEN MsgNotMember
    ELSE IF \E m \in MembershipsOf(a, u) : m.role # "ADMIN" THEN MsgOnlyAdmins
    ELSE "ok"

\* ------------------------------------------------------------------------
\* ts: routes/jointAccounts.ts
\* ------------------------------------------------------------------------

\* POST /  - first write: the jointAccounts document
CreateAccountInsert(p, u) ==
    /\ variant = "ts"
    /\ Free(p)
    /\ AccountIds \ UsedAccountIds # {}
    /\ LET id == Min(AccountIds \ UsedAccountIds)
           r == [Op("createAccount", u) EXCEPT !.acct = id]
       IN /\ jointAccounts' = jointAccounts \cup
                {[id |-> id, adminUserId |-> r.userId, name |-> 1]}
          /\ GotoAfterWrite(p, "create_membership", r)
    /\ UNCHANGED <<variant, rooms, splitRequests, now, jointAccountMembers,
                   jointAccountInvites, notifications, recordVars>>

\* POST /  - second write: the creator's ADMIN membership
CreateAccountMembership(p) ==
    /\ pc[p] = "create_membership"
    /\ LET r == req[p]
           id == Min(MemberIds \ UsedMemberIds)
       IN /\ jointAccountMembers' = jointAccountMembers \cup
                {[id |-> id, jointAccountId |-> r.acct, userId |-> r.userId,
                  role |-> "ADMIN"]}
          /\ Reply(p, r, 201, "")
    /\ UNCHANGED <<variant, rooms, splitRequests, now, jointAccounts, jointAccountInvites,
                   notifications, recordVars>>

\* POST /:jointAccountId/invite - requireJointAccountAdmin
InviteStart(p, u, a, e) ==
    /\ variant = "ts"
    /\ Free(p)
    /\ Cardinality(jointAccountInvites) + Cardinality(Running("invite")) < MaxInvites
    /\ LET r == [Op("invite", u) EXCEPT !.acct = a, !.email = e]
           gate == RequireJointAccountAdmin(r.acct, r.userId)
       IN IF gate # "ok" THEN Reply(p, r, 403, gate)
          ELSE Goto(p, "invite_checkMember", r)
    /\ UNCHANGED <<variant, rooms, splitRequests, now, storeVars>>

\* the invited email belongs to a member: user.findOne({ email }), then
\* jointAccountMembers.findOne({ jointAccountId, userId: existingUser.id })
IsAlreadyMember(a, e) ==
    \E x \in FindUsersByEmail(e) : MembershipsOf(a, x) # {}

\* POST /:jointAccountId/invite - "Check if user is already a member"
InviteCheckMember(p) ==
    /\ pc[p] = "invite_checkMember"
    /\ LET r == req[p]
       IN IF IsAlreadyMember(r.acct, r.email)
          THEN Reply(p, r, 400, "User is already a member")
          ELSE Goto(p, "invite_checkPending", r)
    /\ UNCHANGED <<variant, rooms, splitRequests, now, storeVars>>

\* jointAccountInvites.findOne({ jointAccountId, invitedEmail, status: PENDING })
PendingInvites(a, e) ==
    {i \in jointAccountInvites :
        i.jointAccountId = a /\ i.invitedEmail = e /\ i.status = "PENDING"}

\* POST /:jointAccountId/invite - "Check for existing pending invite"
InviteCheckPending(p) ==
    /\ pc[p] = "invite_checkPending"
    /\ LET r == req[p]
       IN IF PendingInvites(r.acct, ToLowerCase(r.email)) # {}
          THEN Reply(p, r, 400, "Invitation already pending")
          ELSE Goto(p, "invite_insert", r)
    /\ UNCHANGED <<variant, rooms, splitRequests, now, storeVars>>

\* POST /:jointAccountId/invite - jointAccountInvites.insertOne(invite)
InviteInsert(p) ==
    /\ pc[p] = "invite_insert"
    /\ LET r == req[p]
           id == Min(InviteIds \ UsedInviteIds)
       IN /\ jointAccountInvites' = jointAccountInvites \cup
                {[id |-> id, jointAccountId |-> r.acct,
                  invitedEmail |-> ToLowerCase(r.email),
                  status |-> "PENDING", expiresAt |-> now + InviteTtl]}
          /\ Reply(p, [r EXCEPT !.target = id], 201, "")
    /\ UNCHANGED <<variant, rooms, splitRequests, now, jointAccounts, jointAccountMembers,
                   notifications, recordVars>>

\* jointAccountInvites.findOne({ id })
InvitesById(i) == {inv \in jointAccountInvites : inv.id = i}

\* InviteExpired with the expiry check left out
InviteNeverExpires(inv) == FALSE

\* new Date() > invite.expiresAt
InviteExpired(inv) == now > inv.expiresAt

\* POST /invites/:inviteId/respond - the checks before the first write
RespondStart(p, u, i, acc) ==
    /\ variant = "ts"
    /\ Free(p)
    /\ LET r == [Op("respond", u) EXCEPT !.target = i, !.accept = acc]
       IN IF InvitesById(r.target) = {} THEN Reply(p, r, 404, "Invitation not found")
          ELSE LET inv == CHOOSE x \in InvitesById(r.target) : TRUE
                   r2 == [r EXCEPT !.acct = inv.jointAccountId]
               IN IF inv.invitedEmail # ToLowerCase(UserEmail(r.userId))
                  THEN Reply(p, r2, 403, "This invitation is not for you")
                  ELSE IF inv.status # "PENDING"
                  THEN Reply(p, r2, 400, "Invitation already responded to")
                  ELSE IF InviteExpired(inv)
                  THEN Reply(p, r2, 400, "Invitation has expired")
                  ELSE Goto(p, "respond_update", r2)
    /\ UNCHANGED <<variant, rooms, splitRequests, now, storeVars>>

\* An update that matches no invite: the collection stays as it is.
KeepInviteStatus(i, st) == jointAccountInvites

\* jointAccountInvites.updateOne({ id: inviteId }, { $set: { status } })
SetInviteStatus(i, st) ==
    {IF inv.id = i THEN [inv EXCEPT !.status = st] ELSE inv : inv \in jointAccountInvites}

\* POST /invites/:inviteId/respond - the status write
RespondUpdate(p) ==
    /\ pc[p] = "respond_update"
    /\ LET r == req[p]
       IN /\ jointAccountInvites' =
                SetInviteStatus(r.target, IF r.accept THEN "ACCEPTED" ELSE "DECLINED")
          /\ IF r.accept THEN GotoAfterWrite(p, "respond_member", r)
             ELSE Reply(p, r, 200, "Invitation declined")
    /\ UNCHANGED <<variant, rooms, splitRequests, now, jointAccounts, jointAccountMembers,
                   notifications, recordVars>>

\* RespondInsertMember with a duplicate membership answered as a bad request
RespondInsertMemberAnswers400(p) ==
    /\ pc[p] = "respond_member"
    /\ LET r == req[p]
           id == Min(MemberIds \ UsedMemberIds)
       IN IF MembershipsOf(r.acct, r.userId) # {}
          THEN /\ Reply(p, r, 400, "Already a member of this account")
               /\ UNCHANGED jointAccountMembers
          ELSE /\ jointAccountMembers' = jointAccountMembers \cup
                     {[id |-> id, jointAccountId |-> r.acct, userId |-> r.userId,
                       role |-> "MEMBER"]}
               /\ Reply(p, r, 200, "Successfully joined the account")
    /\ UNCHANGED <<variant, rooms, splitRequests, now, jointAccounts, jointAccountInvites,
                   notifications, recordVars>>

\* POST /invites/:inviteId/respond - jointAccountMembers.insertOne(membership);
\* the unique index { jointAccountId, userId } (config/database.ts:36) makes the
\* insert throw on a second row for the pair, and the catch block answers 500
RespondInsertMember(p) ==
    /\ pc[p] = "respond_member"
    /\ LET r == req[p]
           id == Min(MemberIds \ UsedMemberIds)
       IN IF MembershipsOf(r.acct, r.userId) # {}
          THEN /\ Reply(p, r, 500, "Failed to respond to invitation")
               /\ UNCHANGED jointAccountMembers
          ELSE /\ jointAccountMembers' = jointAccountMembers \cup
                     {[id |-> id, jointAccountId |-> r.acct, userId |-> r.userId,
                       role |-> "MEMBER"]}
               /\ Reply(p, r, 200, "Successfully joined the account")
    /\ UNCHANGED <<variant, rooms, splitRequests, now, jointAccounts, jointAccountInvites,
                   notifications, recordVars>>

\* DELETE /:jointAccountId/members/:memberId - find the row, by membership id
\* first and by user id second. A request names either: req.target is the
\* membership id (0 when memberId is a user id), req.member the user id.
RemoveMemberStart(p, u, a, key) ==
    /\ variant = "ts"
    /\ Free(p)
    /\ LET r == [Op("removeMember", u) EXCEPT !.acct = a, !.target = key.id, !.member = key.user]
           byId == {m \in jointAccountMembers :
                      m.id = r.target /\ m.jointAccountId = r.acct}
           byUser == {m \in jointAccountMembers :
                        m.userId = r.member /\ m.jointAccountId = r.acct}
           found == IF byId # {} THEN byId ELSE byUser
       IN IF found = {} THEN Reply(p, r, 404, "Member not found")
          ELSE \E m \in found :
                 Goto(p, "remove_account", [r EXCEPT !.target = m.id, !.member = m.userId])
    /\ UNCHANGED <<variant, rooms, splitRequests, now, storeVars>>

\* RemoveMemberCheck with the "Admin cannot leave" rule left out
RemoveMemberCheckWithoutSelfRule(p) ==
    /\ pc[p] = "remove_account"
    /\ LET r == req[p]
           accts == {x \in jointAccounts : x.id = r.acct}
       IN IF accts = {} THEN Reply(p, r, 404, "Account not found")
          ELSE LET account == CHOOSE x \in accts : TRUE
                   isAdmin == account.adminUserId = r.userId
                   isSelf == r.member = r.userId
               IN IF ~isAdmin /\ ~isSelf
                  THEN Reply(p, r, 403, "You do not have permission to remove this member")
                  ELSE Goto(p, "remove_delete", r)
    /\ UNCHANGED <<variant, rooms, splitRequests, now, storeVars>>

\* DELETE /:jointAccountId/members/:memberId - read the account, check permissions
RemoveMemberCheck(p) ==
    /\ pc[p] = "remove_account"
    /\ LET r == req[p]
           accts == {x \in jointAccounts : x.id = r.acct}
       IN IF accts = {} THEN Reply(p, r, 404, "Account not found")
          ELSE LET account == CHOOSE x \in accts : TRUE
                   isAdmin == account.adminUserId = r.userId
                   isSelf == r.member = r.userId
               IN IF ~isAdmin /\ ~isSelf
                  THEN Reply(p, r, 403, "You do not have permission to remove this member")
                  ELSE IF isAdmin /\ isSelf
                  THEN Reply(p, r, 400, "Admin cannot leave their own account. Transfer ownership or delete the account instead.")
                  ELSE Goto(p, "remove_delete", r)
    /\ UNCHANGED <<variant, rooms, splitRequests, now, storeVars>>

\* DELETE /:jointAccountId/members/:memberId - jointAccountMembers.deleteOne({ id })
RemoveMemberDelete(p) ==
    /\ pc[p] = "remove_delete"
    /\ LET r == req[p]
       IN /\ jointAccountMembers' = {m \in jointAccountMembers : m.id # r.target}
          /\ Reply(p, r, 200, IF r.member = r.userId THEN "Successfully left the account"
                                ELSE "Member removed successfully")
    /\ UNCHANGED <<variant, rooms, splitRequests, now, jointAccounts, jointAccountInvites,
                   notifications, recordVars>>

\* DELETE /:jointAccountId - requireJointAccountAdmin
DeleteAccountStart(p, u, a) ==
    /\ variant = "ts"
    /\ Free(p)
    /\ LET r == [Op("deleteAccount", u) EXCEPT !.acct = a]
           gate == RequireJointAccountAdmin(r.acct, r.userId)
       IN IF gate # "ok" THEN Reply(p, r, 403, gate)
          ELSE Goto(p, "delete_members", r)
    /\ UNCHANGED <<variant, rooms, splitRequests, now, storeVars>>

\* DELETE /:jointAccountId - jointAccountMembers.deleteMany({ jointAccountId })
DeleteAccountMembers(p) ==
    /\ pc[p] = "delete_members"
    /\ jointAccountMembers' =
          {m \in jointAccountMembers : m.jointAccountId # req[p].acct}
    /\ GotoAfterWrite(p, "delete_invites", req[p])
    /\ UNCHANGED <<variant, rooms, splitRequests, now, jointAccounts, jointAccountInvites,
                   notifications, recordVars>>

\* DELETE /:jointAccountId - jointAccountInvites.deleteMany({ jointAccountId })
DeleteAccountInvites(p) ==
    /\ pc[p] = "delete_invites"
    /\ jointAccountInvites' =
          {i \in jointAccountInvites : i.jointAccountId # req[p].acct}
    /\ GotoAfterWrite(p, "delete_account", req[p])
    /\ UNCHANGED <<variant, rooms, splitRequests, now, jointAccounts, jointAccountMembers,
                   notifications, recordVars>>

\* DELETE /:jointAccountId - jointAccounts.deleteOne({ id })
DeleteAccountDoc(p) ==
    /\ pc[p] = "delete_account"
    /\ jointAccounts' = {a \in jointAccounts : a.id # req[p].acct}
    /\ Reply(p, req[p], 200, "Joint account deleted successfully")
    /\ UNCHANGED <<variant, rooms, splitRequests, now, jointAccountMembers,
                   jointAccountInvites, notifications, recordVars>>

\* DELETE /:jointAccountId/invites/:inviteId - requireJointAccountAdmin
CancelInviteStart(p, u, a, i) ==
    /\ variant = "ts"
    /\ Free(p)
    /\ LET r == [Op("cancelInvite", u) EXCEPT !.acct = a, !.target = i]
           gate == RequireJointAccountAdmin(r.acct, r.userId)
       IN IF gate # "ok" THEN Reply(p, r, 403, gate)
          ELSE Goto(p, "cancel_delete", r)
    /\ UNCHANGED <<variant, rooms, splitRequests, now, storeVars>>

\* DELETE /:jointAccountId/invites/:inviteId - deleteOne({ id, jointAccountId })
CancelInviteDelete(p) ==
    /\ pc[p] = "cancel_delete"
    /\ LET r == req[p]
           hit == {i \in jointAccountInvites : i.id = r.target /\ i.jointAccountId = r.acct}
       IN /\ jointAccountInvites' = jointAccountInvites \ hit
          /\ IF hit = {} THEN Reply(p, r, 404, "Invitation not found")
             ELSE Reply(p, r, 200, "Invitation cancelled")
    /\ UNCHANGED <<variant, rooms, splitRequests, now, jointAccounts, jointAccountMembers,
                   notifications, recordVars>>

\* ------------------------------------------------------------------------
\* legacy: routes/jointAccounts.js. A jointAccounts document embeds its
\* memberships: members is an array of { userId, role }.
\* ------------------------------------------------------------------------

\* jointAccounts.findOne({ _id })
AccountsById(a) == {x \in jointAccounts : x.id = a}

\* the positions of the entries of user u in members
MemberIndexes(members, u) == {k \in DOMAIN members : members[k].userId = u}

\* members.some(m => m.userId === u)
IsMember(members, u) == MemberIndexes(members, u) # {}

\* members.find(m => m.userId === u).role: the first entry counts
RoleOf(members, u) ==
    IF IsMember(members, u) THEN members[Min(MemberIndexes(members, u))].role ELSE "none"

\* $push: { members: { userId, role: 'editor' } } on the account a
PushMember(a, u) ==
    {IF x.id = a THEN [x EXCEPT !.members = Append(@, [userId |-> u, role |-> "editor"])]
     ELSE x : x \in jointAccounts}

\* $pull: { members: { userId } } on the account a: every entry of the user goes
PullMember(a, u) ==
    {IF x.id = a THEN [x EXCEPT !.members = SelectSeq(@, LAMBDA m : m.userId # u)]
     ELSE x : x \in jointAccounts}

\* { _id, 'members.userId': u } with $set: { 'members.$.role': role }: the first
\* entry of the user is changed
SetMemberRole(a, u, role) ==
    {IF x.id = a /\ IsMember(x.members, u)
     THEN [x EXCEPT !.members[Min(MemberIndexes(x.members, u))].role = role]
     ELSE x : x \in jointAccounts}

\* POST / - one insertOne with the creator as the only member, role owner
CreateAccountLegacy(p, u) ==
    /\ variant = "legacy"
    /\ Free(p)
    /\ AccountIds \ UsedAccountIds # {}
    /\ LET id == Min(AccountIds \ UsedAccountIds)
           r == [Op("createAccount", u) EXCEPT !.acct = id]
       IN /\ jointAccounts' = jointAccounts \cup
                {[id |-> id, ownerId |-> u, name |-> 1, inviteCode |-> 1,
                  members |-> <<[userId |-> u, role |-> "owner"]>>]}
          /\ Reply(p, r, 201, "")
    /\ UNCHANGED <<variant, rooms, splitRequests, now, jointAccountMembers,
                   jointAccountInvites, notifications, recordVars>>

\* POST /:id/invite-email - the account read and the checks made on it
InviteEmailStart(p, u, a, e) ==
    /\ variant = "legacy"
    /\ Free(p)
    /\ Cardinality(notifications) + Cardinality(Running("inviteEmail")) < MaxInvites
    /\ LET r == [Op("inviteEmail", u) EXCEPT !.acct = a, !.email = e]
           invited == FindUsersByEmail(ToLowerCase(r.email))
       IN IF AccountsById(r.acct) = {} THEN Reply(p, r, 404, "Joint account not found")
          ELSE LET account == CHOOSE x \in AccountsById(r.acct) : TRUE
               IN IF RoleOf(account.members, r.userId) \notin {"owner", "admin"}
                  THEN Reply(p, r, 403, "Only owners and admins can invite members")
                  ELSE IF invited = {}
                  THEN Reply(p, r, 404, "No user found with this email address")
                  ELSE LET invitedUser == CHOOSE x \in invited : TRUE
                       IN IF IsMember(account.members, invitedUser)
                          THEN Reply(p, r, 400, "This user is already a member of this account")
                          ELSE Goto(p, "inviteEmail_checkPending",
                                    [r EXCEPT !.member = invitedUser])
    /\ UNCHANGED <<variant, rooms, splitRequests, now, storeVars>>

\* notifications.findOne({ userId, type, 'data.jointAccountId', actionTaken: { $exists: false } })
PendingNotifications(a, u) ==
    {n \in notifications : n.userId = u /\ n.jointAccountId = a /\ n.actionTaken = "none"}

\* POST /:id/invite-email - "Check if there's already a pending invite"
InviteEmailCheckPending(p) ==
    /\ pc[p] = "inviteEmail_checkPending"
    /\ LET r == req[p]
       IN IF PendingNotifications(r.acct, r.member) # {}
          THEN Reply(p, r, 400, "An invite has already been sent to this user")
          ELSE Goto(p, "inviteEmail_insert", r)
    /\ UNCHANGED <<variant, rooms, splitRequests, now, storeVars>>

\* POST /:id/invite-email - notifications.insertOne(notification)
InviteEmailInsert(p) ==
    /\ pc[p] = "inviteEmail_insert"
    /\ LET r == req[p]
           id == Min(InviteIds \ UsedInviteIds)
       IN /\ notifications' = notifications \cup
                {[id |-> id, userId |-> r.member, jointAccountId |-> r.acct,
                  actionTaken |-> "none"]}
          /\ Reply(p, [r EXCEPT !.target = id], 200, "Invite sent")
    /\ UNCHANGED <<variant, rooms, splitRequests, now, jointAccounts, jointAccountMembers,
                   jointAccountInvites, recordVars>>

\* POST /join - the account read by invite code (an account has one code, so
\* the code is modelled by the account id) and the membership check
JoinStart(p, u, a) ==
    /\ variant = "legacy"
    /\ Free(p)
    /\ LET r == [Op("join", u) EXCEPT !.acct = a]
       IN IF AccountsById(r.acct) = {} THEN Reply(p, r, 404, "Invalid invite code")
          ELSE LET account == CHOOSE x \in AccountsById(r.acct) : TRUE
               IN IF IsMember(account.members, r.userId)
                  THEN Reply(p, r, 400, "Already a member of this joint account")
                  ELSE Goto(p, "join_push", r)
    /\ UNCHANGED <<variant, rooms, splitRequests, now, storeVars>>

\* POST /join - "Add as member"
JoinPush(p) ==
    /\ pc[p] = "join_push"
    /\ jointAccounts' = PushMember(req[p].acct, req[p].userId)
    /\ Reply(p, req[p], 200, "")
    /\ UNCHANGED <<variant, rooms, splitRequests, now, jointAccountMembers,
                   jointAccountInvites, notifications, recordVars>>

\* ------------------------------------------------------------------------
\* legacy: routes/notifications.js, POST /:id/action
\* ------------------------------------------------------------------------

\* NotificationsOf with the userId filter left out
NotificationsById(n, u) == {x \in notifications : x.id = n}

\* notifications.findOne({ _id, userId, type: 'joint_account_invite' })
NotificationsOf(n, u) == {x \in notifications : x.id = n /\ x.userId = u}

\* the notification read and the checks made on it
ActionStart(p, u, n, acc) ==
    /\ variant = "legacy"
    /\ Free(p)
    /\ LET r == [Op("action", u) EXCEPT !.target = n, !.accept = acc]
       IN IF NotificationsOf(r.target, r.userId) = {}
          THEN Reply(p, r, 404, "Notification not found")
          ELSE LET notification == CHOOSE x \in NotificationsOf(r.target, r.userId) : TRUE
                   r2 == [r EXCEPT !.acct = notification.jointAccountId]
               IN IF notification.actionTaken # "none"
                  THEN Reply(p, r2, 400, "Action already taken on this invite")
                  ELSE IF r.accept THEN Goto(p, "action_account", r2)
                  ELSE Goto(p, "action_mark", r2)
    /\ UNCHANGED <<variant, rooms, splitRequests, now, storeVars>>

\* accept: the account read and the membership check
ActionCheckAccount(p) ==
    /\ pc[p] = "action_account"
    /\ LET r == req[p]
       IN IF AccountsById(r.acct) = {}
          THEN Reply(p, r, 404, "Joint account no longer exists")
          ELSE LET account == CHOOSE x \in AccountsById(r.acct) : TRUE
               IN IF IsMember(account.members, r.userId)
                  THEN Reply(p, r, 400, "You are already a member of this account")
                  ELSE Goto(p, "action_push", r)
    /\ UNCHANGED <<variant, rooms, splitRequests, now, storeVars>>

\* accept: "Add user as editor"
ActionPush(p) ==
    /\ pc[p] = "action_push"
    /\ jointAccounts' = PushMember(req[p].acct, req[p].userId)
    /\ GotoAfterWrite(p, "action_mark", req[p])
    /\ UNCHANGED <<variant, rooms, splitRequests, now, jointAccountMembers,
                   jointAccountInvites, notifications, recordVars>>

\* notifications.updateOne({ _id }, { $set: { actionTaken: action } })
SetActionTaken(n, action) ==
    {IF x.id = n THEN [x EXCEPT !.actionTaken = action] ELSE x : x \in notifications}

\* "Mark notification as actioned"
ActionMark(p) ==
    /\ pc[p] = "action_mark"
    /\ LET r == req[p]
       IN /\ notifications' =
                SetActionTaken(r.target, IF r.accept THEN "accept" ELSE "decline")
          /\ Reply(p, r, 200, IF r.accept THEN "You have joined the joint account"
                                ELSE "Invite declined")
    /\ UNCHANGED <<variant, rooms, splitRequests, now, jointAccounts, jointAccountMembers,
                   jointAccountInvites, recordVars>>

\* ------------------------------------------------------------------------
\* legacy: routes/jointAccounts.js, member management
\* ------------------------------------------------------------------------

\* the roles a request can ask for; only admin, editor and viewer are valid
RequestRoles == {"owner", "admin", "editor", "viewer"}

\* ChangeRoleStart with the "only the owner can change an admin's role" rule
\* left out
ChangeRoleStartAnyAdmin(p, u, a, m, role) ==
    /\ variant = "legacy"
    /\ Free(p)
    /\ LET r == [Op("changeRole", u) EXCEPT !.acct = a, !.member = m, !.role = role]
       IN IF r.role \notin {"admin", "editor", "viewer"}
          THEN Reply(p, r, 400, "Valid role is required (admin, editor, or viewer)")
          ELSE IF AccountsById(r.acct) = {}
          THEN Reply(p, r, 404, "Joint account not found")
          ELSE LET account == CHOOSE x \in AccountsById(r.acct) : TRUE
                   currentRole == RoleOf(account.members, r.userId)
                   targetRole == RoleOf(account.members, r.member)
               IN IF currentRole \notin {"owner", "admin"}
                  THEN Reply(p, r, 403, "Only owners and admins can change member roles")
                  ELSE IF targetRole = "none"
                  THEN Reply(p, r, 404, "Member not found")
                  ELSE IF targetRole = "owner"
                  THEN Reply(p, r, 400, "Cannot change owner's role")
                  ELSE Goto(p, "changeRole_update", r)
    /\ UNCHANGED <<variant, rooms, splitRequests, now, storeVars>>

\* PUT /:id/members/:memberId - the account read and the checks made on it
ChangeRoleStart(p, u, a, m, role) ==
    /\ variant = "legacy"
    /\ Free(p)
    /\ LET r == [Op("changeRole", u) EXCEPT !.acct = a, !.member = m, !.role = role]
       IN IF r.role \notin {"admin", "editor", "viewer"}
          THEN Reply(p, r, 400, "Valid role is required (admin, editor, or viewer)")
          ELSE IF AccountsById(r.acct) = {}
          THEN Reply(p, r, 404, "Joint account not found")
          ELSE LET account == CHOOSE x \in AccountsById(r.acct) : TRUE
                   currentRole == RoleOf(account.members, r.userId)
                   targetRole == RoleOf(account.members, r.member)
               IN IF currentRole \notin {"owner", "admin"}
                  THEN Reply(p, r, 403, "Only owners and admins can change member roles")
                  ELSE IF targetRole = "none"
                  THEN Reply(p, r, 404, "Member not found")
                  ELSE IF targetRole = "owner"
                  THEN Reply(p, r, 400, "Cannot change owner's role")
                  ELSE IF targetRole = "admin" /\ currentRole # "owner"
                  THEN Reply(p, r, 403, "Only the owner can change an admin's role")
                  ELSE Goto(p, "changeRole_update", r)
    /\ UNCHANGED <<variant, rooms, splitRequests, now, storeVars>>

\* PUT /:id/members/:memberId - the role write
ChangeRoleUpdate(p) ==
    /\ pc[p] = "changeRole_update"
    /\ jointAccounts' = SetMemberRole(req[p].acct, req[p].member, req[p].role)
    /\ Reply(p, req[p], 200, "")
    /\ UNCHANGED <<variant, rooms, splitRequests, now, jointAccountMembers,
                   jointAccountInvites, notifications, recordVars>>

\* DELETE /:id/members/:memberId - the account read and the checks made on it
RemoveMemberLegacyStart(p, u, a, m) ==
    /\ variant = "legacy"
    /\ Free(p)
    /\ LET r == [Op("removeMember", u) EXCEPT !.acct = a, !.member = m]
       IN IF AccountsById(r.acct) = {}
          THEN Reply(p, r, 404, "Joint account not found")
          ELSE LET account == CHOOSE x \in AccountsById(r.acct) : TRUE
                   currentRole == RoleOf(account.members, r.userId)
                   targetRole == RoleOf(account.members, r.member)
                   isSelf == r.userId = r.member
               IN IF currentRole = "none"
                  THEN Reply(p, r, 403, "Not a member of this joint account")
                  ELSE IF targetRole = "none"
                  THEN Reply(p, r, 404, "Member not found")
                  ELSE IF ~isSelf /\ currentRole \notin {"owner", "admin"}
                  THEN Reply(p, r, 403, "Not authorized to remove this member")
                  ELSE IF targetRole = "owner"
                  THEN Reply(p, r, 400, "Owner cannot be removed. Delete the joint account instead.")
                  ELSE Goto(p, "removeMember_pull", r)
    /\ UNCHANGED <<variant, rooms, splitRequests, now, storeVars>>

\* DELETE /:id/members/:memberId - the $pull
RemoveMemberPull(p) ==
    /\ pc[p] = "removeMember_pull"
    /\ jointAccounts' = PullMember(req[p].acct, req[p].member)
    /\ Reply(p, req[p], 200, "Member removed successfully")
    /\ UNCHANGED <<variant, rooms, splitRequests, now, jointAccountMembers,
                   jointAccountInvites, notifications, recordVars>>

\* POST /:id/leave - findOne({ _id, 'members.userId': userId }) and the owner check
LeaveStart(p, u, a) ==
    /\ variant = "legacy"
    /\ Free(p)
    /\ LET r == [Op("leave", u) EXCEPT !.acct = a, !.member = u]
           found == {x \in AccountsById(r.acct) : IsMember(x.members, r.userId)}
       IN IF found = {} THEN Reply(p, r, 404, "Joint account not found or not a member")
          ELSE LET account == CHOOSE x \in found : TRUE
               IN IF account.ownerId = r.userId
                  THEN Reply(p, r, 400, "Owner cannot leave. Delete the account or transfer ownership first.")
                  ELSE Goto(p, "leave_pull", r)
    /\ UNCHANGED <<variant, rooms, splitRequests, now, storeVars>>

\* POST /:id/leave - the $pull
LeavePull(p) ==
    /\ pc[p] = "leave_pull"
    /\ jointAccounts' = PullMember(req[p].acct, req[p].userId)
    /\ Reply(p, req[p], 200, "Left joint account successfully")
    /\ UNCHANGED <<variant, rooms, splitRequests, now, jointAccountMembers,
                   jointAccountInvites, notifications, recordVars>>

\* DELETE /:id - findOne({ _id, ownerId: userId })
DeleteAccountLegacyStart(p, u, a) ==
    /\ variant = "legacy"
    /\ Free(p)
    /\ LET r == [Op("deleteAccount", u) EXCEPT !.acct = a]
       IN IF {x \in AccountsById(r.acct) : x.ownerId = r.userId} = {}
          THEN Reply(p, r, 403, "Only the owner can delete a joint account")
          ELSE Goto(p, "deleteLegacy_account", r)
    /\ UNCHANGED <<variant, rooms, splitRequests, now, storeVars>>

\* DELETE /:id - jointAccounts.deleteOne({ _id })
DeleteAccountLegacyDoc(p) ==
    /\ pc[p] = "deleteLegacy_account"
    /\ jointAccounts' = {x \in jointAccounts : x.id # req[p].acct}
    /\ GotoAfterWrite(p, "deleteLegacy_records", req[p])
    /\ UNCHANGED <<variant, rooms, splitRequests, now, jointAccountMembers,
                   jointAccountInvites, notifications, recordVars>>

\* DELETE /:id - transactions.deleteMany, then goals.deleteMany, of the account
DeleteAccountLegacyTransactions(p) ==
    /\ pc[p] = "deleteLegacy_records"
    /\ transactions' = {t \in transactions : t.jointAccountId # req[p].acct}
    /\ GotoAfterWrite(p, "deleteLegacy_goals", req[p])
    /\ UNCHANGED <<variant, rooms, splitRequests, now, memberVars, goals, subscriptions>>

DeleteAccountLegacyGoals(p) ==
    /\ pc[p] = "deleteLegacy_goals"
    /\ goals' = {g \in goals : g.jointAccountId # req[p].acct}
    /\ Reply(p, req[p], 200, "Joint account deleted successfully")
    /\ UNCHANGED <<variant, rooms, splitRequests, now, memberVars, transactions, subscriptions>>

\* ------------------------------------------------------------------------
\* ts: routes/transactions.ts, routes/goals.ts, routes/subscriptions.ts.
\* A record is modelled by its id, its account, the user who added it and
\* one amount (amount of a transaction or subscription, currentAmount of a
\* goal). Each handler is one action: these handlers are served one at a time.
\* ------------------------------------------------------------------------

\* io.to(room).emit(...): the users whose socket is in the room of account a
InRoom(a) == {u \in Users : <<u, a>> \in rooms}

\* emitToJointAccount(a, event, data) and nothing else
Emit(a) == [NoFan EXCEPT !.live = InRoom(a)]

\* ts notifyJointAccountMembers(a, excludeUserId, payload): the members of the
\* account except the acting user. Every user has a push subscription.
OtherMembers(a, u) ==
    {m.userId : m \in {x \in jointAccountMembers : x.jointAccountId = a /\ x.userId # u}}

ById(records, id) == {x \in records : x.id = id}

\* updateOne({ id }, { $set: { amount } })
SetAmount(records, id, amt) ==
    {IF x.id = id THEN [x EXCEPT !.amount = amt] ELSE x : x \in records}

NewRecord(id, a, u, amt) == [id |-> id, jointAccountId |-> a, userId |-> u, amount |-> amt]

\* a goal: currentAmount is held in amount
NewGoal(id, a, u, amt, tgt) ==
    [id |-> id, jointAccountId |-> a, userId |-> u, amount |-> amt, targetAmount |-> tgt]

FreeIds(ids, records) == ids \ {x.id : x \in records}

\* ts PUT /api/goals/:goalId, the milestone that is announced when
\* currentAmount goes from old to new: "Goal achieved" (100), or the highest
\* multiple of 25% that is reached, or none
MilestoneTs(old, new, tgt) ==
    IF new >= tgt /\ old < tgt THEN {100}
    ELSE IF new > old /\ (new * 4) \div tgt > (old * 4) \div tgt
    THEN {((new * 4) \div tgt) * 25}
    ELSE {}

\* POST /api/transactions
CreateTransaction(p, u, a, amt) ==
    /\ variant = "ts"
    /\ Free(p)
    /\ LET r == [Op("createTransaction", u) EXCEPT !.acct = a, !.amount = amt]
       IN IF r.amount = 0
          THEN /\ Reply(p, r, 400, "Missing required fields: jointAccountId, amount, type, category")
               /\ UNCHANGED transactions
          ELSE IF MembershipsOf(r.acct, r.userId) = {}
          THEN /\ Reply(p, r, 403, MsgNotMember)
               /\ UNCHANGED transactions
          ELSE /\ FreeIds(TxIds, transactions) # {}
               /\ LET id == Min(FreeIds(TxIds, transactions))
                  IN /\ transactions' = transactions \cup
                            {NewRecord(id, r.acct, r.userId, r.amount)}
                     /\ ReplyWith(p, [r EXCEPT !.target = id], 201, "", {},
                                  [NoFan EXCEPT !.live = InRoom(r.acct),
                                                 !.push = OtherMembers(r.acct, r.userId)])
    /\ UNCHANGED <<variant, rooms, splitRequests, now, memberVars, goals, subscriptions>>

\* PUT /api/transactions/:transactionId
UpdateTransaction(p, u, t, amt) ==
    /\ variant = "ts"
    /\ Free(p)
    /\ LET r == [Op("updateTransaction", u) EXCEPT !.target = t, !.amount = amt]
       IN IF ById(transactions, r.target) = {}
          THEN /\ Reply(p, r, 404, "Transaction not found")
               /\ UNCHANGED transactions
          ELSE LET transaction == CHOOSE x \in ById(transactions, r.target) : TRUE
                   r2 == [r EXCEPT !.acct = transaction.jointAccountId]
               IN IF MembershipsOf(transaction.jointAccountId, r.userId) = {}
                  THEN /\ Reply(p, r2, 403, MsgNotMember)
                       /\ UNCHANGED transactions
                  ELSE /\ transactions' = SetAmount(transactions, r.target, r.amount)
                       /\ ReplyWith(p, r2, 200, "", {},
                                    Emit(transaction.jointAccountId))
    /\ UNCHANGED <<variant, rooms, splitRequests, now, memberVars, goals, subscriptions>>

\* DELETE /api/transactions/:transactionId
DeleteTransaction(p, u, t) ==
    /\ variant = "ts"
    /\ Free(p)
    /\ LET r == [Op("deleteTransaction", u) EXCEPT !.target = t]
       IN IF ById(transactions, r.target) = {}
          THEN /\ Reply(p, r, 404, "Transaction not found")
               /\ UNCHANGED transactions
          ELSE LET transaction == CHOOSE x \in ById(transactions, r.target) : TRUE
                   r2 == [r EXCEPT !.acct = transaction.jointAccountId]
               IN IF MembershipsOf(transaction.jointAccountId, r.userId) = {}
                  THEN /\ Reply(p, r2, 403, MsgNotMember)
                       /\ UNCHANGED transactions
                  ELSE /\ transactions' = transactions \ ById(transactions, r.target)
                       /\ ReplyWith(p, r2, 200, "Transaction deleted", {},
                                    Emit(transaction.jointAccountId))
    /\ UNCHANGED <<variant, rooms, splitRequests, now, memberVars, goals, subscriptions>>

\* POST /api/transactions/bulk-delete: deleteMany({ id: { $in }, jointAccountId })
BulkDeleteTransactions(p, u, a, ids) ==
    /\ variant = "ts"
    /\ Free(p)
    /\ LET r == [Op("bulkDeleteTransactions", u) EXCEPT !.acct = a]
       IN IF MembershipsOf(r.acct, r.userId) = {}
          THEN /\ Reply(p, r, 403, MsgNotMember)
               /\ UNCHANGED transactions
          ELSE /\ transactions' =
                     {x \in transactions : ~(x.id \in ids /\ x.jointAccountId = r.acct)}
               /\ ReplyWith(p, r, 200, "Deleted transactions", {},
                            IF ids # {} THEN [Emit(r.acct) EXCEPT !.events = ids]
                            ELSE NoFan)
    /\ UNCHANGED <<variant, rooms, splitRequests, now, memberVars, goals, subscriptions>>

\* POST /api/goals. A ts goal does not record who created it. The body has a
\* name and a targetAmount.
CreateGoal(p, u, a, amt, tgt) ==
    /\ variant = "ts"
    /\ Free(p)
    /\ LET r == [Op("createGoal", u) EXCEPT !.acct = a, !.amount = amt, !.targetAmount = tgt]
       IN IF MembershipsOf(r.acct, r.userId) = {}
          THEN /\ Reply(p, r, 403, MsgNotMember)
               /\ UNCHANGED goals
          ELSE /\ FreeIds(GoalIds, goals) # {}
               /\ LET id == Min(FreeIds(GoalIds, goals))
                  IN /\ goals' = goals \cup
                            {NewGoal(id, r.acct, "none", r.amount, r.targetAmount)}
                     /\ ReplyWith(p, [r EXCEPT !.target = id], 201, "", {},
                                  [NoFan EXCEPT !.push = OtherMembers(r.acct, r.userId)])
    /\ UNCHANGED <<variant, rooms, splitRequests, now, memberVars, transactions, subscriptions>>

\* PUT /api/goals/:goalId
UpdateGoal(p, u, g, amt) ==
    /\ variant = "ts"
    /\ Free(p)
    /\ LET r == [Op("updateGoal", u) EXCEPT !.target = g, !.amount = amt]
       IN IF ById(goals, r.target) = {}
          THEN /\ Reply(p, r, 404, "Goal not found")
               /\ UNCHANGED goals
          ELSE LET goal == CHOOSE x \in ById(goals, r.target) : TRUE
                   r2 == [r EXCEPT !.acct = goal.jointAccountId]
               IN IF MembershipsOf(goal.jointAccountId, r.userId) = {}
                  THEN /\ Reply(p, r2, 403, MsgNotMember)
                       /\ UNCHANGED goals
                  ELSE LET ms == MilestoneTs(goal.amount, r.amount, goal.targetAmount)
                       IN /\ goals' = SetAmount(goals, r.target, r.amount)
                          /\ ReplyWith(p, r2, 200, "", {},
                                       IF ms = {} THEN NoFan
                                       ELSE [NoFan EXCEPT
                                               !.push = OtherMembers(r2.acct, r.userId),
                                               !.milestone = ms])
    /\ UNCHANGED <<variant, rooms, splitRequests, now, memberVars, transactions, subscriptions>>

\* DELETE /api/goals/:goalId
DeleteGoal(p, u, g) ==
    /\ variant = "ts"
    /\ Free(p)
    /\ LET r == [Op("deleteGoal", u) EXCEPT !.target = g]
       IN IF ById(goals, r.target) = {}
          THEN /\ Reply(p, r, 404, "Goal not found")
               /\ UNCHANGED goals
          ELSE LET goal == CHOOSE x \in ById(goals, r.target) : TRUE
                   r2 == [r EXCEPT !.acct = goal.jointAccountId]
               IN IF MembershipsOf(goal.jointAccountId, r.userId) = {}
                  THEN /\ Reply(p, r2, 403, MsgNotMember)
                       /\ UNCHANGED goals
                  ELSE /\ goals' = goals \ ById(goals, r.target)
                       /\ Reply(p, r2, 200, "Goal deleted")
    /\ UNCHANGED <<variant, rooms, splitRequests, now, memberVars, transactions, subscriptions>>

\* POST /api/subscriptions
CreateSubscription(p, u, a, amt) ==
    /\ variant = "ts"
    /\ Free(p)
    /\ LET r == [Op("createSubscription", u) EXCEPT !.acct = a, !.amount = amt]
       IN IF r.amount = 0
          THEN /\ Reply(p, r, 400, "Missing required fields: jointAccountId, name, amount, cycle")
               /\ UNCHANGED subscriptions
          ELSE IF MembershipsOf(r.acct, r.userId) = {}
          THEN /\ Reply(p, r, 403, MsgNotMember)
               /\ UNCHANGED subscriptions
          ELSE /\ FreeIds(SubIds, subscriptions) # {}
               /\ LET id == Min(FreeIds(SubIds, subscriptions))
                  IN /\ subscriptions' = subscriptions \cup
                            {NewRecord(id, r.acct, "none", r.amount)}
                     /\ Reply(p, [r EXCEPT !.target = id], 201, "")
    /\ UNCHANGED <<variant, rooms, splitRequests, now, memberVars, transactions, goals>>

\* PUT /api/subscriptions/:subscriptionId
UpdateSubscription(p, u, sub, amt) ==
    /\ variant = "ts"
    /\ Free(p)
    /\ LET r == [Op("updateSubscription", u) EXCEPT !.target = sub, !.amount = amt]
       IN IF ById(subscriptions, r.target) = {}
          THEN /\ Reply(p, r, 404, "Subscription not found")
               /\ UNCHANGED subscriptions
          ELSE LET subscription == CHOOSE x \in ById(subscriptions, r.target) : TRUE
                   r2 == [r EXCEPT !.acct = subscription.jointAccountId]
               IN IF MembershipsOf(subscription.jointAccountId, r.userId) = {}
                  THEN /\ Reply(p, r2, 403, MsgNotMember)
                       /\ UNCHANGED subscriptions
                  ELSE /\ subscriptions' = SetAmount(subscriptions, r.target, r.amount)
                       /\ Reply(p, r2, 200, "")
    /\ UNCHANGED <<variant, rooms, splitRequests, now, memberVars, transactions, goals>>

\* DELETE /api/subscriptions/:subscriptionId
DeleteSubscription(p, u, sub) ==
    /\ variant = "ts"
    /\ Free(p)
    /\ LET r == [Op("deleteSubscription", u) EXCEPT !.target = sub]
       IN IF ById(subscriptions, r.target) = {}
          THEN /\ Reply(p, r, 404, "Subscription not found")
               /\ UNCHANGED subscriptions
          ELSE LET subscription == CHOOSE x \in ById(subscriptions, r.target) : TRUE
                   r2 == [r EXCEPT !.acct = subscription.jointAccountId]
               IN IF MembershipsOf(subscription.jointAccountId, r.userId) = {}
                  THEN /\ Reply(p, r2, 403, MsgNotMember)
                       /\ UNCHANGED subscriptions
                  ELSE /\ subscriptions' = subscriptions \ ById(subscriptions, r.target)
                       /\ Reply(p, r2, 200, "Subscription deleted")
    /\ UNCHANGED <<variant, rooms, splitRequests, now, memberVars, transactions, goals>>

\* ------------------------------------------------------------------------
\* legacy: routes/transactions.js, routes/goals.js (records of a joint account)
\* ------------------------------------------------------------------------

\* jointAccounts.findOne({ _id, 'members.userId': userId })
AccountsOfMember(a, u) == {x \in AccountsById(a) : IsMember(x.members, u)}

\* the role of the user in the account found by AccountsOfMember, or "none"
MemberRole(a, u) ==
    IF AccountsOfMember(a, u) = {} THEN "none"
    ELSE RoleOf((CHOOSE x \in AccountsOfMember(a, u) : TRUE).members, u)

MsgViewOnly == "You have view-only access to this account"

\* legacy notifyJointAccountMembers(db, a, excludeUserId, title, body): the
\* members of the account except the acting user. Every user has a push token.
OtherMembersLegacy(a, u) ==
    UNION {{x.members[k].userId : k \in DOMAIN x.members} \ {u} : x \in AccountsById(a)}

\* a chat announcement with readBy: [{ userId }]: the members it is unread for
UnreadBy(a, u) == OtherMembersLegacy(a, u)

\* POST /api/transactions. After insertOne and the emit of transaction-created
\* the handler, still inside its try, awaits two lookups, formats the amount
\* with new Intl.NumberFormat(..., { currency }) - a RangeError unless the
\* currency of the body is a well-formed code -, awaits the push and awaits
\* chatMessages.insertOne: `thrown` is whether one of these throws.
CreateTransactionLegacy(p, u, a, amt) ==
    /\ variant = "legacy"
    /\ Free(p)
    /\ LET r == [Op("createTransaction", u) EXCEPT !.acct = a, !.amount = amt]
       IN IF r.amount <= 0
          THEN /\ Reply(p, r, 400, "Valid amount is required")
               /\ UNCHANGED transactions
          ELSE IF AccountsOfMember(r.acct, r.userId) = {}
          THEN /\ Reply(p, r, 403, "Not a member of this joint account")
               /\ UNCHANGED transactions
          ELSE IF MemberRole(r.acct, r.userId) = "viewer"
          THEN /\ Reply(p, r, 403, MsgViewOnly)
               /\ UNCHANGED transactions
          ELSE /\ FreeIds(TxIds, transactions) # {}
               /\ LET id == Min(FreeIds(TxIds, transactions))
                  IN /\ transactions' = transactions \cup
                            {NewRecord(id, r.acct, r.userId, r.amount)}
                     /\ \E thrown \in BOOLEAN :
                           IF thrown
                           THEN ReplyWith(p, [r EXCEPT !.target = id], 500,
                                          "Failed to create transaction", {}, Emit(r.acct))
                           ELSE ReplyWith(p, [r EXCEPT !.target = id], 201, "", {},
                                          [NoFan EXCEPT
                                              !.live = InRoom(r.acct),
                                              !.push = OtherMembersLegacy(r.acct, r.userId),
                                              !.chat = UnreadBy(r.acct, r.userId)])
    /\ UNCHANGED <<variant, rooms, splitRequests, now, memberVars, goals, subscriptions>>

\* PUT /api/transactions/:id
UpdateTransactionLegacy(p, u, t, amt) ==
    /\ variant = "legacy"
    /\ Free(p)
    /\ LET r == [Op("updateTransaction", u) EXCEPT !.target = t, !.amount = amt]
       IN IF ById(transactions, r.target) = {}
          THEN /\ Reply(p, r, 404, "Transaction not found")
               /\ UNCHANGED transactions
          ELSE LET transaction == CHOOSE x \in ById(transactions, r.target) : TRUE
                   r2 == [r EXCEPT !.acct = transaction.jointAccountId]
                   isOwner == transaction.userId = r.userId
                   isJointMember == AccountsOfMember(transaction.jointAccountId, r.userId) # {}
                   canEdit == MemberRole(transaction.jointAccountId, r.userId)
                                 \in {"owner", "admin", "editor"}
               IN IF ~isOwner /\ ~isJointMember
                  THEN /\ Reply(p, r2, 403, "Not authorized to update this transaction")
                       /\ UNCHANGED transactions
                  ELSE IF ~canEdit
                  THEN /\ Reply(p, r2, 403, MsgViewOnly)
                       /\ UNCHANGED transactions
                  ELSE /\ transactions' = SetAmount(transactions, r.target, r.amount)
                       /\ ReplyWith(p, r2, 200, "", {},
                                    Emit(transaction.jointAccountId))
    /\ UNCHANGED <<variant, rooms, splitRequests, now, memberVars, goals, subscriptions>>

\* DELETE /api/transactions/:id
DeleteTransactionLegacy(p, u, t) ==
    /\ variant = "legacy"
    /\ Free(p)
    /\ LET r == [Op("deleteTransaction", u) EXCEPT !.target = t]
       IN IF ById(transactions, r.target) = {}
          THEN /\ Reply(p, r, 404, "Transaction not found")
               /\ UNCHANGED transactions
          ELSE LET transaction == CHOOSE x \in ById(transactions, r.target) : TRUE
                   r2 == [r EXCEPT !.acct = transaction.jointAccountId]
                   isOwner == transaction.userId = r.userId
                   isJointMember == AccountsOfMember(transaction.jointAccountId, r.userId) # {}
                   canDelete == MemberRole(transaction.jointAccountId, r.userId)
                                   \in {"owner", "admin", "editor"}
               IN IF ~isOwner /\ ~isJointMember
                  THEN /\ Reply(p, r2, 403, "Not authorized to delete this transaction")
                       /\ UNCHANGED transactions
                  ELSE IF ~canDelete
                  THEN /\ Reply(p, r2, 403, MsgViewOnly)
                       /\ UNCHANGED transactions
                  ELSE /\ transactions' = transactions \ ById(transactions, r.target)
                       /\ ReplyWith(p, r2, 200, "Transaction deleted successfully", {},
                                    Emit(transaction.jointAccountId))
    /\ UNCHANGED <<variant, rooms, splitRequests, now, memberVars, goals, subscriptions>>

\* POST /api/goals. The body has a name and a targetAmount.
CreateGoalLegacy(p, u, a, amt, tgt) ==
    /\ variant = "legacy"
    /\ Free(p)
    /\ LET r == [Op("createGoal", u) EXCEPT !.acct = a, !.amount = amt, !.targetAmount = tgt]
       IN IF AccountsOfMember(r.acct, r.userId) = {}
          THEN /\ Reply(p, r, 403, "Not a member of this joint account")
               /\ UNCHANGED goals
          ELSE /\ FreeIds(GoalIds, goals) # {}
               /\ LET id == Min(FreeIds(GoalIds, goals))
                  IN /\ goals' = goals \cup
                            {NewGoal(id, r.acct, r.userId, r.amount, r.targetAmount)}
                     /\ ReplyWith(p, [r EXCEPT !.target = id], 201, "", {},
                                  Emit(r.acct))
    /\ UNCHANGED <<variant, rooms, splitRequests, now, memberVars, transactions, subscriptions>>

\* "Check ownership" of PUT, DELETE and contribute: isOwner || isJointMember
GoalAuthorized(goal, u) ==
    goal.userId = u \/ AccountsOfMember(goal.jointAccountId, u) # {}

\* PUT /api/goals/:id
UpdateGoalLegacy(p, u, g, amt) ==
    /\ variant = "legacy"
    /\ Free(p)
    /\ LET r == [Op("updateGoal", u) EXCEPT !.target = g, !.amount = amt]
       IN IF ById(goals, r.target) = {}
          THEN /\ Reply(p, r, 404, "Goal not found")
               /\ UNCHANGED goals
          ELSE LET goal == CHOOSE x \in ById(goals, r.target) : TRUE
                   r2 == [r EXCEPT !.acct = goal.jointAccountId]
               IN IF ~GoalAuthorized(goal, r.userId)
                  THEN /\ Reply(p, r2, 403, "Not authorized to update this goal")
                       /\ UNCHANGED goals
                  ELSE /\ goals' = SetAmount(goals, r.target, r.amount)
                       /\ ReplyWith(p, r2, 200, "", {},
                                    Emit(goal.jointAccountId))
    /\ UNCHANGED <<variant, rooms, splitRequests, now, memberVars, transactions, subscriptions>>

\* DELETE /api/goals/:id
DeleteGoalLegacy(p, u, g) ==
    /\ variant = "legacy"
    /\ Free(p)
    /\ LET r == [Op("deleteGoal", u) EXCEPT !.target = g]
       IN IF ById(goals, r.target) = {}
          THEN /\ Reply(p, r, 404, "Goal not found")
               /\ UNCHANGED goals
          ELSE LET goal == CHOOSE x \in ById(goals, r.target) : TRUE
                   r2 == [r EXCEPT !.acct = goal.jointAccountId]
               IN IF ~GoalAuthorized(goal, r.userId)
                  THEN /\ Reply(p, r2, 403, "Not authorized to delete this goal")
                       /\ UNCHANGED goals
                  ELSE /\ goals' = goals \ ById(goals, r.target)
                       /\ ReplyWith(p, r2, 200, "Goal deleted successfully", {},
                                    Emit(goal.jointAccountId))
    /\ UNCHANGED <<variant, rooms, splitRequests, now, memberVars, transactions, subscriptions>>

\* POST /api/goals/:id/contribute, the milestone that is announced when
\* currentAmount goes from prev to new: milestones.find(...), the first of
\* 25, 50, 75, 100 that lies above the old percentage and not above the new one
MilestoneLegacy(prev, new, tgt) ==
    LET previousPercent == (prev * 100) \div tgt
        newPercent == (new * 100) \div tgt
        crossed == {m \in {25, 50, 75, 100} : previousPercent < m /\ newPercent >= m}
    IN IF crossed = {} THEN {} ELSE {Min(crossed)}

\* legacy POST /api/goals/:id/contribute - the amount check, the goal read
\* (findOne) and the authorisation; the goal as read stays with the request
ContributeGoalLegacyStart(p, u, g, amt) ==
    /\ variant = "legacy"
    /\ Free(p)
    /\ LET r == [Op("contributeGoal", u) EXCEPT !.target = g, !.amount = amt]
       IN IF r.amount <= 0
          THEN Reply(p, r, 400, "Valid amount is required")
          ELSE IF ById(goals, r.target) = {}
          THEN Reply(p, r, 404, "Goal not found")
          ELSE LET goal == CHOOSE x \in ById(goals, r.target) : TRUE
                   r2 == [r EXCEPT !.acct = goal.jointAccountId, !.goal = goal]
               IN IF ~GoalAuthorized(goal, r.userId)
                  THEN Reply(p, r2, 403, "Not authorized to contribute to this goal")
                  ELSE /\ goal.amount + r.amount <= goal.targetAmount
                       /\ Goto(p, "contribute_write", r2)
    /\ UNCHANGED <<variant, rooms, splitRequests, now, storeVars>>

\* legacy POST /api/goals/:id/contribute - newAmount = goal.currentAmount +
\* parseFloat(amount) from the goal as read, updateOne({ $set: { currentAmount } }),
\* the room event, the milestone announcement and the answer. When a milestone
\* is crossed the handler, still inside its try, awaits users.findOne and
\* chatMessages.insertOne: `thrown` is whether one of them throws.
ContributeGoalLegacyWrite(p) ==
    /\ pc[p] = "contribute_write"
    /\ LET r == req[p]
           goal == r.goal
           newAmount == goal.amount + r.amount
           ms == MilestoneLegacy(goal.amount, newAmount, goal.targetAmount)
       IN /\ goals' = SetAmount(goals, r.target, newAmount)
          /\ \E thrown \in {FALSE, ms # {}} :
                IF thrown
                THEN ReplyWith(p, r, 500, "Failed to contribute to goal", {}, Emit(r.acct))
                ELSE ReplyWith(p, r, 200, "", {},
                               [NoFan EXCEPT
                                  !.live = InRoom(r.acct),
                                  !.chat = IF ms = {} THEN {}
                                           ELSE UnreadBy(r.acct, r.userId),
                                  !.milestone = ms])
    /\ UNCHANGED <<variant, rooms, splitRequests, now, memberVars, transactions, subscriptions>>

\* ------------------------------------------------------------------------
\* Account metadata and the invite code
\* ------------------------------------------------------------------------

\* ts PUT /:jointAccountId - requireJointAccountAdmin
UpdateAccountStart(p, u, a, n) ==
    /\ variant = "ts"
    /\ Free(p)
    /\ LET r == [Op("updateAccount", u) EXCEPT !.acct = a, !.name = n]
           gate == RequireJointAccountAdmin(r.acct, r.userId)
       IN IF gate # "ok" THEN Reply(p, r, 403, gate)
          ELSE Goto(p, "update_write", r)
    /\ UNCHANGED <<variant, rooms, splitRequests, now, storeVars>>

\* ts PUT /:jointAccountId - if (name) updateData.name = name; updateOne({ id })
UpdateAccountWrite(p) ==
    /\ pc[p] = "update_write"
    /\ LET r == req[p]
       IN /\ jointAccounts' =
                {IF x.id = r.acct /\ r.name # 0 THEN [x EXCEPT !.name = r.name] ELSE x :
                    x \in jointAccounts}
          /\ Reply(p, r, 200, "")
    /\ UNCHANGED <<variant, rooms, splitRequests, now, jointAccountMembers,
                   jointAccountInvites, notifications, recordVars>>

\* legacy PUT /:id - the account read and the role check
UpdateAccountLegacyStart(p, u, a, n) ==
    /\ variant = "legacy"
    /\ Free(p)
    /\ LET r == [Op("updateAccount", u) EXCEPT !.acct = a, !.name = n]
       IN IF AccountsById(r.acct) = {} THEN Reply(p, r, 404, "Joint account not found")
          ELSE LET account == CHOOSE x \in AccountsById(r.acct) : TRUE
               IN IF RoleOf(account.members, r.userId) \notin {"owner", "admin"}
                  THEN Reply(p, r, 403, "Only owners and admins can update joint accounts")
                  ELSE Goto(p, "updateLegacy_write", r)
    /\ UNCHANGED <<variant, rooms, splitRequests, now, storeVars>>

\* An update that writes the caller as the owner along with the name.
UpdateAccountLegacyWriteTakesOwnership(p) ==
    /\ pc[p] = "updateLegacy_write"
    /\ LET r == req[p]
       IN /\ jointAccounts' =
                {IF x.id = r.acct THEN [x EXCEPT !.name = r.name, !.ownerId = r.userId] ELSE x :
                    x \in jointAccounts}
          /\ Reply(p, r, 200, "")
    /\ UNCHANGED <<variant, rooms, splitRequests, now, jointAccountMembers, jointAccountInvites,
                   notifications, recordVars>>

\* legacy PUT /:id - if (name !== undefined) updates.name = name; updateOne({ _id })
UpdateAccountLegacyWrite(p) ==
    /\ pc[p] = "updateLegacy_write"
    /\ LET r == req[p]
       IN /\ jointAccounts' =
                {IF x.id = r.acct /\ r.name # 0 THEN [x EXCEPT !.name = r.name] ELSE x :
                    x \in jointAccounts}
          /\ Reply(p, r, 200, "")
    /\ UNCHANGED <<variant, rooms, splitRequests, now, jointAccountMembers,
                   jointAccountInvites, notifications, recordVars>>

\* legacy POST /:id/invite - the account read and the role check. The codes
\* are numbered: a new code is the next number.
GenerateInviteCodeStart(p, u, a) ==
    /\ variant = "legacy"
    /\ Free(p)
    /\ \A x \in AccountsById(a) : x.inviteCode < MaxCodes
    /\ LET r == [Op("inviteCode", u) EXCEPT !.acct = a]
       IN IF AccountsById(r.acct) = {} THEN Reply(p, r, 404, "Joint account not found")
          ELSE LET account == CHOOSE x \in AccountsById(r.acct) : TRUE
               IN IF RoleOf(account.members, r.userId) \notin {"owner", "admin"}
                  THEN Reply(p, r, 403, "Only owners and admins can generate invite codes")
                  ELSE Goto(p, "inviteCode_write", [r EXCEPT !.target = account.inviteCode + 1])
    /\ UNCHANGED <<variant, rooms, splitRequests, now, storeVars>>

\* legacy POST /:id/invite - updateOne({ _id }, { $set: { inviteCode } })
GenerateInviteCodeWrite(p) ==
    /\ pc[p] = "inviteCode_write"
    /\ LET r == req[p]
       IN /\ jointAccounts' =
                {IF x.id = r.acct THEN [x EXCEPT !.inviteCode = r.target] ELSE x :
                    x \in jointAccounts}
          /\ Reply(p, r, 200, "")
    /\ UNCHANGED <<variant, rooms, splitRequests, now, jointAccountMembers,
                   jointAccountInvites, notifications, recordVars>>

\* ------------------------------------------------------------------------
\* legacy: routes/chat.js, split requests. participants is modelled as a
\* function from the participating users to their status.
\* ------------------------------------------------------------------------

SplitsById(s) == {x \in splitRequests : x.id = s}

\* POST /api/chat/:jointAccountId/split-request. The body has a valid amount;
\* splitWith.users is the splitWith of the body when it has one
\* (splitWith.given), else the request is split with the other members of
\* the account.
SplitCreate(p, u, a, splitWith) ==
    /\ variant = "legacy"
    /\ Free(p)
    /\ Cardinality(splitRequests) < MaxSplits
    /\ LET r == [Op("splitCreate", u) EXCEPT !.acct = a]
           splitMembers == IF splitWith.given THEN splitWith.users
                           ELSE OtherMembersLegacy(r.acct, r.userId)
           id == Cardinality(splitRequests) + 1
       IN IF AccountsOfMember(r.acct, r.userId) = {}
          THEN /\ Reply(p, r, 403, "Not a member of this joint account")
               /\ UNCHANGED splitRequests
          ELSE /\ splitRequests' = splitRequests \cup
                     {[id |-> id, jointAccountId |-> r.acct, requesterId |-> r.userId,
                       participants |-> [m \in splitMembers |-> "pending"],
                       status |-> "active"]}
               /\ Reply(p, [r EXCEPT !.target = id], 201, "")
    /\ UNCHANGED <<variant, rooms, now, storeVars>>

\* POST /api/chat/split-request/:splitRequestId/respond - the request read and
\* "Find user's participation"
SplitRespondStart(p, u, s, action) ==
    /\ variant = "legacy"
    /\ Free(p)
    /\ LET r == [Op("splitRespond", u) EXCEPT !.target = s, !.accept = (action = "pay")]
       IN IF action \notin {"pay", "decline"} THEN Reply(p, r, 400, "Invalid action")
          ELSE IF SplitsById(r.target) = {} THEN Reply(p, r, 404, "Split request not found")
          ELSE LET splitRequest == CHOOSE x \in SplitsById(r.target) : TRUE
                   r2 == [r EXCEPT !.acct = splitRequest.jointAccountId]
               IN IF r.userId \notin DOMAIN splitRequest.participants
                  THEN Reply(p, r2, 403, "You are not part of this split request")
                  ELSE Goto(p, "split_update", r2)
    /\ UNCHANGED <<variant, rooms, splitRequests, now, storeVars>>

\* respond - "Update participant status"
SplitRespondUpdate(p) ==
    /\ pc[p] = "split_update"
    /\ LET r == req[p]
       IN /\ splitRequests' =
                {IF x.id = r.target
                 THEN [x EXCEPT !.participants[r.userId] =
                                    IF r.accept THEN "paid" ELSE "declined"]
                 ELSE x : x \in splitRequests}
          /\ GotoAfterWrite(p, "split_read", r)
    /\ UNCHANGED <<variant, rooms, now, storeVars>>

\* respond - "Check if all participants have responded": the request is read
\* again; allResponded is kept in req.accept
SplitRespondRead(p) ==
    /\ pc[p] = "split_read"
    /\ LET r == req[p]
           updatedSplitRequest == CHOOSE x \in SplitsById(r.target) : TRUE
           allResponded == \A m \in DOMAIN updatedSplitRequest.participants :
                              updatedSplitRequest.participants[m] # "pending"
       IN Goto(p, "split_complete", [r EXCEPT !.accept = allResponded])
    /\ UNCHANGED <<variant, rooms, splitRequests, now, storeVars>>

\* respond - if (allResponded) updateOne({ $set: { status: 'completed' } }),
\* and the answer
SplitRespondComplete(p) ==
    /\ pc[p] = "split_complete"
    /\ LET r == req[p]
       IN /\ splitRequests' =
                IF r.accept
                THEN {IF x.id = r.target THEN [x EXCEPT !.status = "completed"] ELSE x :
                         x \in splitRequests}
                ELSE splitRequests
          /\ Reply(p, r, 200, "Split request answered")
    /\ UNCHANGED <<variant, rooms, now, storeVars>>

\* ------------------------------------------------------------------------
\* Reading an account's records, and the live room of an account
\* ------------------------------------------------------------------------

\* find({ jointAccountId }): the documents of the account, by their ids
RecordsOfAccount(records, a) == {x.id : x \in {y \in records : y.jointAccountId = a}}

\* requireJointAccountMember: "ok", or the 403 message
RequireJointAccountMember(a, u) ==
    IF MembershipsOf(a, u) = {} THEN MsgNotMember ELSE "ok"

\* ts: GET /api/transactions/joint-account/:jointAccountId
ListTransactions(p, u, a) ==
    /\ variant = "ts"
    /\ Free(p)
    /\ LET r == [Op("listTransactions", u) EXCEPT !.acct = a]
           gate == RequireJointAccountMember(r.acct, r.userId)
       IN IF gate # "ok" THEN Reply(p, r, 403, gate)
          ELSE ReplyWith(p, r, 200, "", RecordsOfAccount(transactions, r.acct), NoFan)
    /\ UNCHANGED <<variant, rooms, splitRequests, now, storeVars>>

\* ts: GET /api/goals/joint-account/:jointAccountId
ListGoals(p, u, a) ==
    /\ variant = "ts"
    /\ Free(p)
    /\ LET r == [Op("listGoals", u) EXCEPT !.acct = a]
           gate == RequireJointAccountMember(r.acct, r.userId)
       IN IF gate # "ok" THEN Reply(p, r, 403, gate)
          ELSE ReplyWith(p, r, 200, "", RecordsOfAccount(goals, r.acct), NoFan)
    /\ UNCHANGED <<variant, rooms, splitRequests, now, storeVars>>

\* ts: GET /api/subscriptions/joint-account/:jointAccountId
ListSubscriptions(p, u, a) ==
    /\ variant = "ts"
    /\ Free(p)
    /\ LET r == [Op("listSubscriptions", u) EXCEPT !.acct = a]
           gate == RequireJointAccountMember(r.acct, r.userId)
       IN IF gate # "ok" THEN Reply(p, r, 403, gate)
          ELSE ReplyWith(p, r, 200, "", RecordsOfAccount(subscriptions, r.acct), NoFan)
    /\ UNCHANGED <<variant, rooms, splitRequests, now, storeVars>>

\* 4-tier: GET /api/transactions?jointAccountId=a. The query is built from
\* the parameter alone.
ListTransactionsLegacy(p, u, a) ==
    /\ variant = "legacy"
    /\ Free(p)
    /\ LET r == [Op("listTransactions", u) EXCEPT !.acct = a]
       IN ReplyWith(p, r, 200, "", RecordsOfAccount(transactions, r.acct), NoFan)
    /\ UNCHANGED <<variant, rooms, splitRequests, now, storeVars>>

\* 4-tier: GET /api/transactions/stats?jointAccountId=a: the totals of the
\* matched documents
StatsLegacy(p, u, a) ==
    /\ variant = "legacy"
    /\ Free(p)
    /\ LET r == [Op("stats", u) EXCEPT !.acct = a]
       IN ReplyWith(p, r, 200, "", RecordsOfAccount(transactions, r.acct), NoFan)
    /\ UNCHANGED <<variant, rooms, splitRequests, now, storeVars>>

\* 4-tier: GET /api/goals?jointAccountId=a
ListGoalsLegacy(p, u, a) ==
    /\ variant = "legacy"
    /\ Free(p)
    /\ LET r == [Op("listGoals", u) EXCEPT !.acct = a]
       IN ReplyWith(p, r, 200, "", RecordsOfAccount(goals, r.acct), NoFan)
    /\ UNCHANGED <<variant, rooms, splitRequests, now, storeVars>>

\* socket.on('join-joint-account'), both servers: socket.join(room). A user
\* has one socket.
JoinRoom(u, a) ==
    /\ <<u, a>> \notin rooms
    /\ rooms' = rooms \cup {<<u, a>>}
    /\ lastResp' = NoResp
    /\ UNCHANGED <<variant, splitRequests, now, storeVars, pc, req>>

\* socket.on('leave-joint-account'), both servers: socket.leave(room)
LeaveRoom(u, a) ==
    /\ <<u, a>> \in rooms
    /\ rooms' = rooms \ {<<u, a>>}
    /\ lastResp' = NoResp
    /\ UNCHANGED <<variant, splitRequests, now, storeVars, pc, req>>

\* The values a request can name: the id of a document in the store, or 0
\* (as a membership id: memberId is a user id).
InviteTargets == {i.id : i \in jointAccountInvites}

TxTargets == {x.id : x \in transactions}
GoalTargets == {x.id : x \in goals}
SubTargets == {x.id : x \in subscriptions}

NotificationTargets == {n.id : n \in notifications}

MemberKeys ==
    [id : {m.id : m \in jointAccountMembers}, user : {"none"}]
    \cup [id : {0}, user : Users]

\* ------------------------------------------------------------------------
\* The clock
\* ------------------------------------------------------------------------

\* The clock is read only against an invite's expiresAt.
Tick ==
    /\ now < MaxNow
    /\ jointAccountInvites # {}
    /\ now' = now + 1
    /\ lastResp' = NoResp
    /\ UNCHANGED <<variant, rooms, splitRequests, storeVars, pc, req>>

\* ------------------------------------------------------------------------
\* Specification
\* ------------------------------------------------------------------------

Init ==
    /\ variant \in {"ts", "legacy"}
    /\ now = 0
    /\ jointAccounts = {}
    /\ jointAccountMembers = {}
    /\ jointAccountInvites = {}
    /\ notifications = {}
    /\ transactions = {}
    /\ goals = {}
    /\ subscriptions = {}
    /\ rooms = {}
    /\ splitRequests = {}
    /\ pc = [p \in Procs |-> "idle"]
    /\ req = [p \in Procs |-> NoReq]
    /\ lastResp = NoResp

TsMemberStep(p) ==
    \/ \E u \in Users : CreateAccountInsert(p, u)
    \/ CreateAccountMembership(p)
    \/ \E u \in Users, a \in AccountIds, e \in Emails : InviteStart(p, u, a, e)
    \/ InviteCheckMember(p)
    \/ InviteCheckPending(p)
    \/ InviteInsert(p)
    \/ \E u \in Users, i \in InviteTargets, acc \in BOOLEAN : RespondStart(p, u, i, acc)
    \/ RespondUpdate(p)
    \/ RespondInsertMember(p)
    \/ \E u \in Users, a \in AccountIds, key \in MemberKeys : RemoveMemberStart(p, u, a, key)
    \/ RemoveMemberCheck(p)
    \/ RemoveMemberDelete(p)
    \/ \E u \in Users, a \in AccountIds : DeleteAccountStart(p, u, a)
    \/ DeleteAccountMembers(p)
    \/ DeleteAccountInvites(p)
    \/ DeleteAccountDoc(p)

\* DELETE /:jointAccountId/invites/:inviteId
TsCancelStep(p) ==
    \/ \E u \in Users, a \in AccountIds, i \in InviteTargets : CancelInviteStart(p, u, a, i)
    \/ CancelInviteDelete(p)

\* PUT of the account's metadata, and the 4-tier server's POST /:id/invite
MetadataStep(p) ==
    \/ \E u \in Users, a \in AccountIds, n \in Names : UpdateAccountStart(p, u, a, n)
    \/ UpdateAccountWrite(p)
    \/ \E u \in Users, a \in AccountIds, n \in Names : UpdateAccountLegacyStart(p, u, a, n)
    \/ UpdateAccountLegacyWrite(p)
    \/ \E u \in Users, a \in AccountIds : GenerateInviteCodeStart(p, u, a)
    \/ GenerateInviteCodeWrite(p)

LegacyMemberStep(p) ==
    \/ \E u \in Users : CreateAccountLegacy(p, u)
    \/ \E u \in Users, a \in AccountIds, e \in Emails : InviteEmailStart(p, u, a, e)
    \/ InviteEmailCheckPending(p)
    \/ InviteEmailInsert(p)
    \/ \E u \in Users, a \in AccountIds : JoinStart(p, u, a)
    \/ JoinPush(p)
    \/ \E u \in Users, n \in NotificationTargets, acc \in BOOLEAN : ActionStart(p, u, n, acc)
    \/ ActionCheckAccount(p)
    \/ ActionPush(p)
    \/ ActionMark(p)
    \/ \E u \in Users, a \in AccountIds, m \in Users, role \in RequestRoles :
          ChangeRoleStart(p, u, a, m, role)
    \/ ChangeRoleUpdate(p)
    \/ \E u \in Users, a \in AccountIds, m \in Users : RemoveMemberLegacyStart(p, u, a, m)
    \/ RemoveMemberPull(p)
    \/ \E u \in Users, a \in AccountIds : LeaveStart(p, u, a)
    \/ LeavePull(p)
    \/ \E u \in Users, a \in AccountIds : DeleteAccountLegacyStart(p, u, a)
    \/ DeleteAccountLegacyDoc(p)
    \/ DeleteAccountLegacyTransactions(p)
    \/ DeleteAccountLegacyGoals(p)

\* The membership workflow of both servers, handlers interleaved at their awaits.
\* The clock stands still: it is read only to refuse a response to an invite,
\* so a run with ticks reaches no store that a run without them cannot reach.
Next ==
    \/ \E p \in Procs : TsMemberStep(p)
    \/ \E p \in Procs : LegacyMemberStep(p)

Spec == Init /\ [][Next]_vars

TsRecordStep(p) ==
    \/ \E u \in Users, a \in AccountIds, amt \in Amounts : CreateTransaction(p, u, a, amt)
    \/ \E u \in Users, t \in TxTargets, amt \in Amounts : UpdateTransaction(p, u, t, amt)
    \/ \E u \in Users, t \in TxTargets : DeleteTransaction(p, u, t)
    \/ \E u \in Users, a \in AccountIds, ids \in SUBSET TxIds :
          BulkDeleteTransactions(p, u, a, ids)
    \/ \E u \in Users, a \in AccountIds, amt \in Amounts : CreateGoal(p, u, a, amt, MaxAmount)
    \/ \E u \in Users, g \in GoalTargets, amt \in Amounts : UpdateGoal(p, u, g, amt)
    \/ \E u \in Users, g \in GoalTargets : DeleteGoal(p, u, g)
    \/ \E u \in Users, a \in AccountIds, amt \in Amounts : CreateSubscription(p, u, a, amt)
    \/ \E u \in Users, sub \in SubTargets, amt \in Amounts : UpdateSubscription(p, u, sub, amt)
    \/ \E u \in Users, sub \in SubTargets : DeleteSubscription(p, u, sub)

LegacyRecordStep(p) ==
    \/ \E u \in Users, a \in AccountIds, amt \in Amounts : CreateTransactionLegacy(p, u, a, amt)
    \/ \E u \in Users, t \in TxTargets, amt \in Amounts : UpdateTransactionLegacy(p, u, t, amt)
    \/ \E u \in Users, t \in TxTargets : DeleteTransactionLegacy(p, u, t)
    \/ \E u \in Users, a \in AccountIds, amt \in Amounts :
          CreateGoalLegacy(p, u, a, amt, MaxAmount)
    \/ \E u \in Users, g \in GoalTargets, amt \in Amounts : UpdateGoalLegacy(p, u, g, amt)
    \/ \E u \in Users, g \in GoalTargets : DeleteGoalLegacy(p, u, g)
    \/ \E u \in Users, g \in GoalTargets, amt \in Amounts :
          ContributeGoalLegacyStart(p, u, g, amt)
    \/ ContributeGoalLegacyWrite(p)

\* One request at a time, with the clock, the cancelling of invites and the
\* account's metadata.
SeqNext ==
    \/ Tick
    \/ TsMemberStep(1)
    \/ TsCancelStep(1)
    \/ MetadataStep(1)
    \/ LegacyMemberStep(1)

SpecSeq == Init /\ [][SeqNext]_vars

\* The requests by which a user becomes a member, changes role and leaves
JoinLeaveStep(p) ==
    \/ \E u \in Users : CreateAccountInsert(p, u)
    \/ CreateAccountMembership(p)
    \/ \E u \in Users, a \in AccountIds, e \in Emails : InviteStart(p, u, a, e)
    \/ InviteCheckMember(p)
    \/ InviteCheckPending(p)
    \/ InviteInsert(p)
    \/ \E u \in Users, i \in InviteTargets, acc \in BOOLEAN : RespondStart(p, u, i, acc)
    \/ RespondUpdate(p)
    \/ RespondInsertMember(p)
    \/ \E u \in Users, a \in AccountIds, key \in MemberKeys : RemoveMemberStart(p, u, a, key)
    \/ RemoveMemberCheck(p)
    \/ RemoveMemberDelete(p)
    \/ \E u \in Users : CreateAccountLegacy(p, u)
    \/ \E u \in Users, a \in AccountIds : JoinStart(p, u, a)
    \/ JoinPush(p)
    \/ \E u \in Users, a \in AccountIds, m \in Users, role \in RequestRoles :
          ChangeRoleStart(p, u, a, m, role)
    \/ ChangeRoleUpdate(p)
    \/ \E u \in Users, a \in AccountIds : LeaveStart(p, u, a)
    \/ LeavePull(p)

\* One request at a time: the financial records, and the membership requests
\* that decide who may write them.
RecNext ==
    \/ JoinLeaveStep(1)
    \/ TsRecordStep(1)
    \/ LegacyRecordStep(1)

SpecRec == Init /\ [][RecNext]_vars

\* Three users, to have two members below the owner
RoleUsers == Users \cup {"carol"}

\* The 4-tier server's role management, one request at a time
RolesNext ==
    \/ \E u \in RoleUsers : CreateAccountLegacy(1, u)
    \/ \E u \in RoleUsers, a \in AccountIds : JoinStart(1, u, a)
    \/ JoinPush(1)
    \/ \E u \in RoleUsers, a \in AccountIds, m \in RoleUsers, role \in RequestRoles :
          ChangeRoleStart(1, u, a, m, role)
    \/ ChangeRoleUpdate(1)
    \/ \E u \in RoleUsers, a \in AccountIds, m \in RoleUsers :
          RemoveMemberLegacyStart(1, u, a, m)
    \/ RemoveMemberPull(1)

SpecRoles == Init /\ [][RolesNext]_vars

\* The reads of an account's records
ReadStep(p) ==
    \/ \E u \in Users, a \in AccountIds : ListTransactions(p, u, a)
    \/ \E u \in Users, a \in AccountIds : ListGoals(p, u, a)
    \/ \E u \in Users, a \in AccountIds : ListSubscriptions(p, u, a)
    \/ \E u \in Users, a \in AccountIds : ListTransactionsLegacy(p, u, a)
    \/ \E u \in Users, a \in AccountIds : StatsLegacy(p, u, a)
    \/ \E u \in Users, a \in AccountIds : ListGoalsLegacy(p, u, a)

\* The sockets
SocketStep ==
    \/ \E u \in Users, a \in AccountIds : JoinRoom(u, a)
    \/ \E u \in Users, a \in AccountIds : LeaveRoom(u, a)

\* The transactions of both servers
TransactionStep(p) ==
    \/ \E u \in Users, a \in AccountIds, amt \in Amounts : CreateTransaction(p, u, a, amt)
    \/ \E u \in Users, t \in TxTargets, amt \in Amounts : UpdateTransaction(p, u, t, amt)
    \/ \E u \in Users, t \in TxTargets : DeleteTransaction(p, u, t)
    \/ \E u \in Users, a \in AccountIds, amt \in Amounts : CreateTransactionLegacy(p, u, a, amt)
    \/ \E u \in Users, t \in TxTargets, amt \in Amounts : UpdateTransactionLegacy(p, u, t, amt)
    \/ \E u \in Users, t \in TxTargets : DeleteTransactionLegacy(p, u, t)

\* DELETE of an account, both servers
AccountDeleteStep(p) ==
    \/ \E u \in Users, a \in AccountIds : DeleteAccountStart(p, u, a)
    \/ DeleteAccountMembers(p)
    \/ DeleteAccountInvites(p)
    \/ DeleteAccountDoc(p)
    \/ \E u \in Users, a \in AccountIds : DeleteAccountLegacyStart(p, u, a)
    \/ DeleteAccountLegacyDoc(p)
    \/ DeleteAccountLegacyTransactions(p)
    \/ DeleteAccountLegacyGoals(p)

\* One request at a time: who is a member, who listens to the account's room,
\* the transactions and what is sent about them, the reads, and the deleting
\* of an account.
FanNext ==
    \/ JoinLeaveStep(1)
    \/ SocketStep
    \/ TransactionStep(1)
    \/ ReadStep(1)
    \/ AccountDeleteStep(1)

SpecFan == Init /\ [][FanNext]_vars

\* The amounts a request on a goal with target 50 gives: nothing, one step of
\* 2%, 24%, 26%, 52% and the whole target.
GoalAmounts == {0, 1, 12, 13, 26, GoalTarget}

\* The goals of both servers, with target GoalTarget
GoalStep(p) ==
    \/ \E u \in Users, a \in AccountIds : CreateGoal(p, u, a, 0, GoalTarget)
    \/ \E u \in Users, g \in GoalTargets, amt \in GoalAmounts : UpdateGoal(p, u, g, amt)
    \/ \E u \in Users, a \in AccountIds : CreateGoalLegacy(p, u, a, 0, GoalTarget)
    \/ \E u \in Users, g \in GoalTargets, amt \in GoalAmounts : UpdateGoalLegacy(p, u, g, amt)
    \/ \E u \in Users, g \in GoalTargets, amt \in GoalAmounts :
          ContributeGoalLegacyStart(p, u, g, amt)
    \/ ContributeGoalLegacyWrite(p)

\* One request at a time: who is a member, and the progress of a goal.
GoalNext ==
    \/ JoinLeaveStep(1)
    \/ GoalStep(1)

SpecGoal == Init /\ [][GoalNext]_vars

\* req.body.amount of a transaction request, as a number: a negative one, none
\* (0) and the amounts of Amounts. Number() and parseFloat() leave a number as
\* it is.
BodyAmounts == (0 - 1)..MaxAmount

\* The transactions of both servers, with any number as the amount of the body
TransactionBodyStep(p) ==
    \/ \E u \in Users, a \in AccountIds, amt \in BodyAmounts : CreateTransaction(p, u, a, amt)
    \/ \E u \in Users, t \in TxTargets, amt \in BodyAmounts : UpdateTransaction(p, u, t, amt)
    \/ \E u \in Users, a \in AccountIds, amt \in BodyAmounts :
          CreateTransactionLegacy(p, u, a, amt)
    \/ \E u \in Users, t \in TxTargets, amt \in BodyAmounts :
          UpdateTransactionLegacy(p, u, t, amt)

\* One request at a time: who is a member, and the amounts of transactions.
AmountNext ==
    \/ JoinLeaveStep(1)
    \/ TransactionBodyStep(1)

SpecAmount == Init /\ [][AmountNext]_vars

\* the splitWith of a body
SplitWiths == [given : {TRUE}, users : SUBSET Users] \cup {[given |-> FALSE, users |-> {}]}

\* Split requests, handlers interleaved at their awaits
SplitStep(p) ==
    \/ \E u \in Users : CreateAccountLegacy(p, u)
    \/ \E u \in Users, a \in AccountIds : JoinStart(p, u, a)
    \/ JoinPush(p)
    \/ \E u \in Users, a \in AccountIds, w \in SplitWiths : SplitCreate(p, u, a, w)
    \/ \E u \in Users, s \in 1..MaxSplits, action \in {"pay", "decline", "other"} :
          SplitRespondStart(p, u, s, action)
    \/ SplitRespondUpdate(p)
    \/ SplitRespondRead(p)
    \/ SplitRespondComplete(p)

SplitNext == \E p \in Procs : SplitStep(p)

SpecSplit == Init /\ [][SplitNext]_vars

\* Contributions to a goal of the 4-tier server, two requests at a time
ContributeStep(p) ==
    \/ \E u \in Users : CreateAccountLegacy(p, u)
    \/ \E u \in Users, a \in AccountIds : CreateGoalLegacy(p, u, a, 0, GoalTarget)
    \/ \E u \in Users, g \in GoalTargets, amt \in GoalAmounts :
          ContributeGoalLegacyStart(p, u, g, amt)
    \/ ContributeGoalLegacyWrite(p)

ContributeNext == \E p \in Procs : ContributeStep(p)

SpecContribute == Init /\ [][ContributeNext]_vars

\* One request at a time: who is a member, who listens to which room, and the
\* transactions of the 2-tier server created and deleted in bulk.
BulkNext ==
    \/ JoinLeaveStep(1)
    \/ SocketStep
    \/ \E u \in Users, a \in AccountIds, amt \in Amounts : CreateTransaction(1, u, a, amt)
    \/ \E u \in Users, a \in AccountIds, ids \in SUBSET TxIds :
          BulkDeleteTransactions(1, u, a, ids)

SpecBulk == Init /\ [][BulkNext]_vars

\* ------------------------------------------------------------------------
\* Properties. A request that is answered in its first step is seen in one
\* step from pc[p] = "idle" to lastResp'.proc = p; lastResp'.req holds what
\* the request named, completed with the account of the document it named.
\* ------------------------------------------------------------------------

RecordOps ==
    {"createTransaction", "updateTransaction", "deleteTransaction",
     "bulkDeleteTransactions", "createGoal", "updateGoal", "deleteGoal", "contributeGoal",
     "createSubscription", "updateSubscription", "deleteSubscription"}

ExistingAccountIds == {a.id : a \in jointAccounts}

\* user u holds a membership in account a
HasMembership(a, u) ==
    IF variant = "ts" THEN MembershipsOf(a, u) # {} ELSE AccountsOfMember(a, u) # {}

\* C1: a mutating request on the financial records of an existing account,
\* made by a user who holds no membership in that account, is refused (403,
\* or 400 when it is malformed) and changes no transaction, goal or
\* subscription - also when the user created the record and has left since.
C1_NonMemberRefused ==
    [][\A p \in Procs :
          (/\ pc[p] = "idle"
           /\ lastResp'.proc = p
           /\ lastResp'.req.op \in RecordOps
           /\ lastResp'.req.acct \in ExistingAccountIds
           /\ ~HasMembership(lastResp'.req.acct, lastResp'.req.userId))
          => (lastResp'.code \in {400, 403} /\ UNCHANGED recordVars)]_vars

ViewerGatedOps ==
    {"createTransaction", "updateTransaction", "deleteTransaction",
     "createGoal", "updateGoal", "deleteGoal", "contributeGoal"}

\* C2: in the 4-tier server a create, update, delete or contribute request on
\* a transaction or goal of an account, made by a member whose role there is
\* viewer, is refused (403, or 400 when it is malformed) and writes nothing.
C2_ViewerRefused ==
    [][\A p \in Procs :
          (/\ variant = "legacy"
           /\ pc[p] = "idle"
           /\ lastResp'.proc = p
           /\ lastResp'.req.op \in ViewerGatedOps
           /\ MemberRole(lastResp'.req.acct, lastResp'.req.userId) = "viewer")
          => (lastResp'.code \in {400, 403} /\ UNCHANGED recordVars)]_vars

\* the memberships of account a that hold the top role, counted
NumTop(a) ==
    IF variant = "ts"
    THEN Cardinality({m \in jointAccountMembers :
                         m.jointAccountId = a /\ m.role = "ADMIN"})
    ELSE LET account == CHOOSE x \in AccountsById(a) : TRUE
         IN Cardinality({k \in DOMAIN account.members : account.members[k].role = "owner"})

\* the top-role memberships in the store: <<account, user>>
TopMemberships ==
    IF variant = "ts"
    THEN {<<m.jointAccountId, m.userId>> :
             m \in {x \in jointAccountMembers : x.role = "ADMIN"}}
    ELSE UNION {{<<x.id, x.members[k].userId>> :
                    k \in {j \in DOMAIN x.members : x.members[j].role = "owner"}} :
                x \in jointAccounts}

\* C3: in every reachable state, the states between the writes of
\* one request included, every stored account has exactly one membership
\* holding the top role.
C3_ExactlyOneTopAlways == \A a \in ExistingAccountIds : NumTop(a) = 1

\* Account a is between the two writes of the request creating it, or between
\* the membership delete and the account delete of a request deleting it.
Unsettled(a) ==
    \E p \in Procs :
        /\ req[p].acct = a
        /\ pc[p] \in {"create_membership", "delete_invites", "delete_account"}

C3_TopCount ==
    \A a \in ExistingAccountIds :
        /\ NumTop(a) <= 1
        /\ ~Unsettled(a) => NumTop(a) = 1

\* a step of a remove-member, leave or change-role request
ManageStep ==
    \E p \in Procs :
        /\ pc'[p] # pc[p]
        /\ {req[p].op, req'[p].op}
              \cap {"removeMember", "leave", "changeRole"} # {}

\* What the code does keep of C3: every stored account has at most one
\* top-role membership in every state, and exactly one unless a request
\* creating it has not yet written the creator's membership or a request
\* deleting it has deleted the memberships and not yet the account; no step of
\* a remove-member, leave or change-role request deletes a top-role membership
\* or changes its role.
C3_SingleTopRole ==
    /\ []C3_TopCount
    /\ [][ManageStep => TopMemberships' = TopMemberships]_vars

\* The case of the second half of C3: the admin's request to remove the own
\* membership was answered
\* 400 and the account still has its one ADMIN membership.
C3_Witness ==
    /\ lastResp.req.op = "removeMember"
    /\ lastResp.code = 400
    /\ lastResp.req.member = lastResp.req.userId
    /\ lastResp.req.acct \in ExistingAccountIds
    /\ NumTop(lastResp.req.acct) = 1

\* C4: no two invites with status PENDING exist for one (account, email) pair.
C4_AtMostOnePending ==
    \A i, j \in jointAccountInvites :
        (/\ i.status = "PENDING"
         /\ j.status = "PENDING"
         /\ i.jointAccountId = j.jointAccountId
         /\ i.invitedEmail = j.invitedEmail) => i = j

\* C5: at most one membership per (account, user) pair: one jointAccountMembers
\* row in the 2-tier server, one members[] entry in the 4-tier server.
C5_AtMostOneMembership ==
    IF variant = "ts"
    THEN \A m, n \in jointAccountMembers :
            (m.jointAccountId = n.jointAccountId /\ m.userId = n.userId) => m = n
    ELSE \A x \in jointAccounts : \A u \in Users :
            Cardinality(MemberIndexes(x.members, u)) <= 1

\* process p starts to serve a request in this step: the request
Started(p) == IF pc'[p] # "idle" THEN req'[p] ELSE lastResp'.req

\* process p starts to serve a request of operation op in this step
Starts(p, op) ==
    /\ pc[p] = "idle"
    /\ pc'[p] # "idle" \/ lastResp'.proc = p
    /\ Started(p).op = op

\* C6: a respond request, accept or decline, on an invite whose expiresAt is
\* earlier than the current time is answered 4xx in the step that reads the
\* invite, whatever the stored status, and changes no invite and no membership.
C6_ExpiredRespondFails ==
    [][\A p \in Procs : \A inv \in jointAccountInvites :
          (/\ Starts(p, "respond")
           /\ Started(p).target = inv.id
           /\ now > inv.expiresAt)
          => (/\ lastResp'.proc = p
              /\ lastResp'.code \in 400..499
              /\ UNCHANGED <<jointAccountInvites, jointAccountMembers>>)]_vars

\* C6 witness: the invitee's response to a PENDING invite was refused because
\* the invite has expired.
C6_Witness ==
    /\ lastResp.req.op = "respond"
    /\ lastResp.error = "Invitation has expired"
    /\ \E inv \in jointAccountInvites :
          /\ inv.id = lastResp.req.target
          /\ inv.status = "PENDING"
          /\ now > inv.expiresAt

\* C7: when the accept request of the invitee on a PENDING, unexpired invite
\* has completed, the invite is ACCEPTED and the invitee holds a MEMBER
\* membership in the account.
C7_AcceptCreatesMembership ==
    (/\ lastResp.req.op = "respond"
     /\ lastResp.req.accept
     /\ lastResp.code \notin {400, 403, 404})
    => (/\ \E inv \in jointAccountInvites :
              inv.id = lastResp.req.target /\ inv.status = "ACCEPTED"
        /\ \E m \in MembershipsOf(lastResp.req.acct, lastResp.req.userId) :
              m.role = "MEMBER")

\* C8: once the stored status of an invite is ACCEPTED or DECLINED, no step
\* changes it.
C8_ResolvedStatusKept ==
    [][\A i \in jointAccountInvites : \A j \in jointAccountInvites' :
          (i.id = j.id /\ i.status \in {"ACCEPTED", "DECLINED"})
          => j.status = i.status]_vars

\* C9: an invite request for an email that, lowercased, is the email of a
\* member of the account is not answered with success, whatever its letter case.
C9_MemberNotInvited ==
    (/\ lastResp.req.op \in {"invite", "inviteEmail"}
     /\ \E u \in Users :
           /\ UserEmail(u) = ToLowerCase(lastResp.req.email)
           /\ HasMembership(lastResp.req.acct, u))
    => lastResp.code \notin {200, 201}

\* process p starts to serve a response to an existing invite that is
\* addressed to another user than the requesting one
OtherUserResponds(p) ==
    IF variant = "ts"
    THEN /\ Starts(p, "respond")
         /\ \E inv \in jointAccountInvites :
               /\ inv.id = Started(p).target
               /\ inv.invitedEmail # ToLowerCase(UserEmail(Started(p).userId))
    ELSE /\ Starts(p, "action")
         /\ \E n \in notifications :
               /\ n.id = Started(p).target
               /\ n.userId # Started(p).userId

\* C10 as stated: a response by another user than the invitee is answered 403
\* and changes no invite and no membership.
C10_OtherUserGets403 ==
    [][\A p \in Procs :
          OtherUserResponds(p)
          => (/\ lastResp'.proc = p
              /\ lastResp'.code = 403
              /\ UNCHANGED memberVars)]_vars

\* C10, amended: a response by another user than the invitee is refused in the
\* step that reads the invite - 403 by the 2-tier server, 404 by the 4-tier
\* server, which finds the invite by its id and its addressee - and changes
\* no invite and no membership.
C10_OnlyAddresseeResponds ==
    [][\A p \in Procs :
          OtherUserResponds(p)
          => (/\ lastResp'.proc = p
              /\ lastResp'.code = (IF variant = "ts" THEN 403 ELSE 404)
              /\ UNCHANGED memberVars)]_vars

\* C10 witness: the 4-tier server answered 404 to a response to a stored
\* invite of another user.
C10_Witness ==
    /\ lastResp.req.op = "action"
    /\ lastResp.code = 404
    /\ \E n \in notifications :
          n.id = lastResp.req.target /\ n.userId # lastResp.req.userId

\* user u is a member of account a without the role that manages it
PlainMember(a, u) ==
    IF variant = "ts"
    THEN MembershipsOf(a, u) # {} /\ \A m \in MembershipsOf(a, u) : m.role # "ADMIN"
    ELSE MemberRole(a, u) \in {"editor", "viewer"}

ManageOps ==
    {"invite", "inviteEmail", "inviteCode", "cancelInvite", "changeRole", "removeMember",
     "updateAccount"}

\* process p takes a step
Steps(p) == pc'[p] # pc[p] \/ lastResp'.proc = p

\* the request that process p serves in the step it takes
Served(p) == IF pc[p] = "idle" THEN Started(p) ELSE req[p]

\* a remove-member request r names the membership of another user than the
\* requesting one
RemovesOther(r) ==
    IF variant = "ts"
    THEN \E m \in jointAccountMembers :
            /\ m.jointAccountId = r.acct
            /\ m.id = r.target \/ m.userId = r.member
            /\ m.userId # r.userId
    ELSE r.member # r.userId /\ MemberRole(r.acct, r.member) # "none"

RemovesSelf(r) ==
    IF variant = "ts"
    THEN \E m \in jointAccountMembers :
            /\ m.jointAccountId = r.acct
            /\ m.id = r.target \/ m.userId = r.member
            /\ m.userId = r.userId
    ELSE r.member = r.userId

MsgsTopCannotLeave ==
    {"Admin cannot leave their own account. Transfer ownership or delete the account instead.",
     "Owner cannot be removed. Delete the joint account instead."}

\* C12: a remove-member request of the holder of the account's top role that
\* names the own membership is answered 400 with the cannot-leave message and
\* no step of it changes a membership; every 403 answer to a remove-member
\* request carries another message.
C12_TopCannotRemoveSelf ==
    [][\A p \in Procs :
          /\ (/\ Steps(p)
               /\ Served(p).op = "removeMember"
               /\ <<Served(p).acct, Served(p).userId>> \in TopMemberships
               /\ RemovesSelf(Served(p)))
              => (/\ UNCHANGED memberVars
                  /\ lastResp'.proc = p
                        => (lastResp'.code = 400 /\ lastResp'.error \in MsgsTopCannotLeave))
          /\ (lastResp'.proc = p /\ lastResp'.req.op = "removeMember" /\ lastResp'.code = 403)
              => lastResp'.error \notin MsgsTopCannotLeave]_vars

\* C12 witness: the ADMIN's request to remove the own membership, named by its
\* membership id, was answered 400 and the membership is still stored.
C12_Witness ==
    /\ variant = "ts"
    /\ lastResp.req.op = "removeMember"
    /\ lastResp.code = 400
    /\ lastResp.error \in MsgsTopCannotLeave
    /\ \E m \in jointAccountMembers :
          /\ m.id = lastResp.req.target
          /\ m.userId = lastResp.req.userId
          /\ m.role = "ADMIN"

\* process p serves, in the 4-tier server, a well-formed change-role or
\* remove-member request of an owner or admin on a member who is not owner
ManagesNonOwner(p) ==
    /\ variant = "legacy"
    /\ Steps(p)
    /\ Served(p).op \in {"changeRole", "removeMember"}
    /\ MemberRole(Served(p).acct, Served(p).userId) \in {"owner", "admin"}
    /\ MemberRole(Served(p).acct, Served(p).member) \in {"admin", "editor", "viewer"}
    /\ Served(p).op = "changeRole" => Served(p).role \in {"admin", "editor", "viewer"}

\* C13: in the 4-tier server no change-role or remove-member request of an
\* owner or admin on a member whose role is not owner, admins included, is
\* answered with a permission error (403).
C13_AdminManagesAllNonOwners ==
    [][\A p \in Procs :
          (ManagesNonOwner(p) /\ lastResp'.proc = p) => lastResp'.code # 403]_vars

\* the request is an admin's change of the role of an admin
AdminOnAdmin(r) ==
    /\ r.op = "changeRole"
    /\ MemberRole(r.acct, r.userId) = "admin"
    /\ MemberRole(r.acct, r.member) = "admin"

\* C13, amended: in the 4-tier server an owner may change the role of and
\* remove every member who is not owner, and an admin may remove every member
\* who is not owner and change the role of every editor and viewer: these
\* requests are answered 200; an admin's request to change the role of an
\* admin is answered 403 "Only the owner can change an admin's role" and
\* changes nothing.
C13_OnlyOwnerChangesAdmins ==
    [][\A p \in Procs :
          ManagesNonOwner(p)
          => IF AdminOnAdmin(Served(p))
             THEN /\ lastResp'.proc = p
                  /\ lastResp'.code = 403
                  /\ lastResp'.error = "Only the owner can change an admin's role"
                  /\ UNCHANGED memberVars
             ELSE lastResp'.proc = p => lastResp'.code = 200]_vars

\* C13 witness: an admin's request to change the role of another admin was
\* answered 403.
C13_Witness ==
    /\ lastResp.req.op = "changeRole"
    /\ lastResp.code = 403
    /\ lastResp.req.member # lastResp.req.userId
    /\ MemberRole(lastResp.req.acct, lastResp.req.userId) = "admin"
    /\ MemberRole(lastResp.req.acct, lastResp.req.member) = "admin"

\* C14: whoever obtains records of an account from a read, or an event of the
\* account's live room, holds a membership in that account at that moment.
C14_OnlyMembersObtainData ==
    LET a == lastResp.req.acct
    IN /\ lastResp.data # {} => HasMembership(a, lastResp.req.userId)
       /\ \A u \in lastResp.fan.live : HasMembership(a, u)

\* the documents that carry the id of account a
OwnedBy(a) ==
    {m \in jointAccountMembers : m.jointAccountId = a}
    \cup {i \in jointAccountInvites : i.jointAccountId = a}
    \cup {n \in notifications : n.jointAccountId = a}
    \cup {t \in transactions : t.jointAccountId = a}
    \cup {g \in goals : g.jointAccountId = a}
    \cup {s \in subscriptions : s.jointAccountId = a}

\* C15: when a delete-account request has been answered with success, no
\* membership, invite, transaction, goal or subscription that carries the
\* deleted account's id is left in the store.
C15_DeleteCascades ==
    (lastResp.req.op = "deleteAccount" /\ lastResp.code = 200)
        => OwnedBy(lastResp.req.acct) = {}

\* the users a response's notifications went to, on any channel
Recipients(resp) == resp.fan.live \cup resp.fan.push \cup resp.fan.chat

\* C16: after a successful mutation of a financial record of account A by
\* user U, no notification of it on any channel reaches U, and every other
\* user who is a member of A at that moment is among the recipients.
C16_FanOutToOthersOnly ==
    (lastResp.req.op \in RecordOps /\ lastResp.code \in {200, 201})
        => /\ lastResp.req.userId \notin Recipients(lastResp)
           /\ \A u \in Users \ {lastResp.req.userId} :
                 HasMembership(lastResp.req.acct, u) => u \in Recipients(lastResp)

\* C17: a create, update or delete of a transaction, goal or subscription
\* that has written to the store is answered with success, whatever happens
\* in the steps that announce it.
C17_WriteThenSuccess ==
    [][\A p \in Procs :
          (/\ lastResp'.proc = p
           /\ lastResp'.req.op \in RecordOps
           /\ recordVars' # recordVars)
          => lastResp'.code \in {200, 201}]_vars

\* A step of a handler that changes the store and suspends the handler leaves
\* the handler marked as having written.
WroteRecorded ==
    [][\A p \in Procs :
          (Steps(p) /\ pc'[p] # "idle" /\ storeVars' # storeVars) => req'[p].wrote]_vars

\* C18: a request answered 403 or 400 has sent no write to the store: the
\* answering step changes nothing in the store, and no earlier step of the
\* request wrote.
C18_RefusedWithoutWrite ==
    [][\A p \in Procs :
          (lastResp'.proc = p /\ lastResp'.code \in {400, 403})
          => (UNCHANGED storeVars /\ ~lastResp'.req.wrote)]_vars

\* The case of C18: a request refused with 400 or 403 in a later step of its
\* handler, with documents in the store.
C18_Witness ==
    /\ lastResp.code \in {400, 403}
    /\ lastResp.req.op \in {"invite", "removeMember"}
    /\ jointAccountMembers # {}

\* the 403 messages that say the user is not a member of the account (or, on
\* the 4-tier server, neither a member nor the one who added the record)
NotMemberReasons ==
    {MsgNotMember, "Not a member of this joint account",
     "Not authorized to update this transaction", "Not authorized to delete this transaction",
     "Not authorized to update this goal", "Not authorized to delete this goal",
     "Not authorized to contribute to this goal"}

\* the 403 messages that say the user's role does not permit the request
RoleReasons == {MsgOnlyAdmins, MsgViewOnly}

\* C19: a request on the records of an account that is refused with 403
\* carries a not-a-member reason exactly when the user holds no membership in
\* the account, and an insufficient-role reason exactly when the user is a
\* member; no message is both.
C19_ReasonTellsCase ==
    /\ NotMemberReasons \cap RoleReasons = {}
    /\ (lastResp.code = 403 /\ lastResp.req.op \in RecordOps)
          => LET member == HasMembership(lastResp.req.acct, lastResp.req.userId)
             IN /\ lastResp.error \in NotMemberReasons <=> ~member
                /\ lastResp.error \in RoleReasons <=> member

\* the 25%-multiples of the target that lie above old and not above new
Crossed(old, new, tgt) ==
    {m \in {25, 50, 75, 100} : old * 100 < m * tgt /\ new * 100 >= m * tgt}

\* C20: a successful update of, or contribution to, a goal announces exactly
\* the 25%-boundaries of the target that currentAmount crosses upwards, one
\* notification for each (none when it stays inside a band), and the
\* notifications go to the other members of the account, not to the user who
\* made the request.
C20_OneNotificationPerBoundary ==
    [][\A p \in Procs :
          (/\ lastResp'.proc = p
           /\ lastResp'.req.op \in {"updateGoal", "contributeGoal"}
           /\ lastResp'.code = 200)
          => LET r == lastResp'.req
                 old == CHOOSE x \in ById(goals, r.target) : TRUE
                 new == CHOOSE x \in ById(goals', r.target) : TRUE
                 crossed == Crossed(old.amount, new.amount, old.targetAmount)
             IN /\ lastResp'.fan.milestone = crossed
                /\ crossed # {} =>
                      Recipients(lastResp') =
                          {u \in Users \ {r.userId} : HasMembership(r.acct, u)}]_vars

\* C21: every transaction in the store has an amount that is not negative.
C21_AmountsNonNegative == \A t \in transactions : t.amount >= 0

\* no participant of split request s is pending
AllResponded(s) == \A m \in DOMAIN s.participants : s.participants[m] # "pending"

\* C22: in every reachable state a split request is 'completed' exactly when
\* none of its participants is pending.
C22_CompletedIffAllResponded ==
    \A s \in splitRequests : s.status = "completed" <=> AllResponded(s)

\* What the code does keep of C22: a split request is never completed while
\* one of its participants is pending.
C22_NeverCompletedWhilePending ==
    \A s \in splitRequests : s.status = "completed" => AllResponded(s)

\* C23: accepting an invite is one write to the store. 2-tier: the step that
\* stores an invite as ACCEPTED also inserts the invitee's membership in the
\* invite's account. 4-tier: the step in which an accept adds the member also
\* marks the invite notification as accepted.
C23_AcceptIsAtomic ==
    [][/\ \A i \in jointAccountInvites' :
             (i.status = "ACCEPTED"
              /\ \E j \in jointAccountInvites : j.id = i.id /\ j.status # "ACCEPTED")
             => \E m \in jointAccountMembers' \ jointAccountMembers :
                   /\ m.jointAccountId = i.jointAccountId
                   /\ UserEmail(m.userId) = i.invitedEmail
       /\ \A p \in Procs :
             (Steps(p) /\ Served(p).op = "action" /\ jointAccounts' # jointAccounts)
             => \E n \in notifications' :
                   n.id = Served(p).target /\ n.actionTaken = "accept"]_vars

\* C24: a successful goal request that sets currentAmount announces a
\* milestone exactly when floor(progress / 25) changes or the progress
\* reaches 100% from below, and the announcement is the 'achieved' one (100)
\* exactly when the progress reaches 100% from below.
C24_MilestoneRule ==
    [][\A p \in Procs :
          (/\ lastResp'.proc = p
           /\ lastResp'.req.op \in {"updateGoal", "contributeGoal"}
           /\ lastResp'.code = 200)
          => LET r == lastResp'.req
                 old == CHOOSE x \in ById(goals, r.target) : TRUE
                 new == CHOOSE x \in ById(goals', r.target) : TRUE
                 tgt == old.targetAmount
                 achieved == new.amount >= tgt /\ old.amount < tgt
                 bandChanged == (old.amount * 4) \div tgt # (new.amount * 4) \div tgt
             IN /\ lastResp'.fan.milestone # {} <=> (bandChanged \/ achieved)
                /\ lastResp'.fan.milestone = {100} <=> achieved]_vars

C26_OwnerIsFixed ==
    [][LET owner(x) == IF variant = "ts" THEN x.adminUserId ELSE x.ownerId
       IN /\ \A a \in jointAccounts, b \in jointAccounts' :
                a.id = b.id => owner(b) = owner(a)
          /\ \A b \in jointAccounts' :
                b.id \notin ExistingAccountIds
                => \E p \in Procs : /\ Steps(p)
                                    /\ Served(p).op = "createAccount"
                                    /\ owner(b) = Served(p).userId]_vars

C26_Witness ==
    /\ lastResp.code = 200
    /\ lastResp.req.op \in {"updateAccount", "changeRole", "removeMember", "leave"}
    /\ \E a \in jointAccounts :
          /\ a.id = lastResp.req.acct
          /\ lastResp.req.userId # (IF variant = "ts" THEN a.adminUserId ELSE a.ownerId)

\* C27: every contribution that completes successfully adds its amount to the
\* goal's currentAmount as it stands, whatever other contributions are in
\* progress: none is lost and none is counted twice.
C27_ContributionsAddUp ==
    [][\A p \in Procs :
          (/\ lastResp'.proc = p
           /\ lastResp'.req.op = "contributeGoal"
           /\ lastResp'.code = 200)
          => \A g \in ById(goals, lastResp'.req.target) :
                \E h \in ById(goals', g.id) : h.amount = g.amount + lastResp'.req.amount]_vars

\* C28: when no request is in progress, every membership row and every invite
\* row belongs to an account that exists.
C28_NoOrphanRows ==
    (\A p \in Procs : pc[p] = "idle")
    => /\ \A m \in jointAccountMembers : m.jointAccountId \in ExistingAccountIds
       /\ \A i \in jointAccountInvites : i.jointAccountId \in ExistingAccountIds

\* C29: when the admin of an account asks to invite an email that is not a
\* member's and every PENDING invite of that account for the email has
\* expired, the request is answered 201 and stores a new PENDING invite.
C29_ExpiredInviteCanBeRenewed ==
    [][\A p \in Procs :
          (/\ lastResp'.proc = p
           /\ lastResp'.req.op = "invite"
           /\ LET r == lastResp'.req
              IN /\ RequireJointAccountAdmin(r.acct, r.userId) = "ok"
                 /\ ~IsAlreadyMember(r.acct, r.email)
                 /\ PendingInvites(r.acct, ToLowerCase(r.email)) # {}
                 /\ \A i \in PendingInvites(r.acct, ToLowerCase(r.email)) : InviteExpired(i))
          => /\ lastResp'.code = 201
             /\ \E i \in jointAccountInvites' \ jointAccountInvites :
                   /\ i.jointAccountId = lastResp'.req.acct
                   /\ i.invitedEmail = ToLowerCase(lastResp'.req.email)
                   /\ i.status = "PENDING"]_vars

\* C30: every TRANSACTION_DELETED event that a bulk delete sends to the room
\* of an account names a transaction of that account which the request
\* removed.
C30_BulkDeleteEventsNameRemoved ==
    [][\A p \in Procs :
          (/\ lastResp'.proc = p
           /\ lastResp'.req.op = "bulkDeleteTransactions"
           /\ lastResp'.fan.live # {})
          => \A id \in lastResp'.fan.events :
                \E t \in transactions \ transactions' :
                   t.id = id /\ t.jointAccountId = lastResp'.req.acct]_vars

====
